---- MODULE Spec2Model ----
(***************************************************************************)
(* A model of the Advent of Code 2015 solvers: the generic solver          *)
(* lifecycle (solvers/solver.py), the solver factory (solvers/factory.py)  *)
(* and the Day 22 combat search (solvers/day_22.py).                       *)
(***************************************************************************)
EXTENDS Integers, Sequences, FiniteSets, TLC

(***************************************************************************)
(* Bounds of the model.                                                    *)
(***************************************************************************)
MaxBossHp == 12
MaxBossDamage == 51

(***************************************************************************)
(* Program constants.                                                      *)
(***************************************************************************)
\* sys.maxsize is 2^63 - 1 in the program; the model uses the largest
\* integer the checker holds.  Every mana total in the model is far below.
MaxSize == 2147483647
PlayerHitPts == 50
PlayerMana == 500

magic_missile == [cost |-> 53, effect |-> 4, turns |-> 0]
drain == [cost |-> 73, effect |-> 2, turns |-> 0]
shield == [cost |-> 113, effect |-> 7, turns |-> 6]
poison_five_turns == [cost |-> 173, effect |-> 3, turns |-> 5]
poison == [cost |-> 173, effect |-> 3, turns |-> 6]
recharge_refunded == [cost |-> -229, effect |-> 101, turns |-> 5]
recharge == [cost |-> 229, effect |-> 101, turns |-> 5]

Player(hp, mana) == [hit_pts |-> hp, mana |-> mana]
Boss(hp, dmg) == [hit_pts |-> hp, damage |-> dmg]
Effects(s, p, r) == [shield |-> s, poison |-> p, recharge |-> r]
Move(t, used, p, b, e) ==
  [turn |-> t, mana_used |-> used, player |-> p, boss |-> b, effects |-> e]

Min(a, b) == IF a <= b THEN a ELSE b

(***************************************************************************)
(* The order of Move tuples: Python compares namedtuples field by field,   *)
(* nested tuples included, so the turn decides first.                      *)
(***************************************************************************)
MoveKey(m) ==
  << m.turn, m.mana_used, m.player.hit_pts, m.player.mana, m.boss.hit_pts,
     m.boss.damage, m.effects.shield, m.effects.poison, m.effects.recharge >>

RECURSIVE LexLess(_, _, _)
LexLess(a, b, i) ==
  IF i > Len(a) THEN FALSE
  ELSE IF a[i] < b[i] THEN TRUE
  ELSE IF a[i] > b[i] THEN FALSE
  ELSE LexLess(a, b, i + 1)

MoveLess(m, n) == LexLess(MoveKey(m), MoveKey(n), 1)

(***************************************************************************)
(* The heap `moves`.  heappop always returns the least element, so the     *)
(* list is kept here in ascending order: the head is what heappop returns. *)
(***************************************************************************)
\* the moves of the heap that are below the item are its first
\* InsertionPoint moves, the list being in ascending order; found by bisection
\* between lo and hi
RECURSIVE InsertionPoint(_, _, _, _)
InsertionPoint(heap, item, lo, hi) ==
  IF lo >= hi THEN lo
  ELSE IF MoveLess(heap[(lo + hi) \div 2 + 1], item)
  THEN InsertionPoint(heap, item, (lo + hi) \div 2 + 1, hi)
  ELSE InsertionPoint(heap, item, lo, (lo + hi) \div 2)

InsertAt(heap, item, k) ==
  CHOOSE pushed \in
    {SubSeq(heap, 1, at) \o << item >> \o SubSeq(heap, at + 1, Len(heap)) :
     at \in {k}} : TRUE

\* each argument is evaluated once and then bound to a name
Contains(moves, m) ==
  \E item \in {m} : SelectSeq(moves, LAMBDA n : n = item) # << >>

HeapPush(moves, m) ==
  CHOOSE pushed \in
    {InsertAt(heap, item, InsertionPoint(heap, item, 0, Len(heap))) :
     heap \in {moves}, item \in {m}} : TRUE

\* `if new_move not in moves: heapq.heappush(moves, new_move)`
PushNew(moves, m) == IF Contains(moves, m) THEN moves ELSE HeapPush(moves, m)

\* `boss.hit_pts < 1`: the boss is beaten
BossDefeatedAtZero(boss) == boss.hit_pts = 0
BossDefeated(boss) == boss.hit_pts < 1

(***************************************************************************)
(* The spells.                                                             *)
(***************************************************************************)
CastMagicMissile(player, boss) ==
  [player |-> Player(player.hit_pts, player.mana - magic_missile.cost),
   boss |-> Boss(boss.hit_pts - magic_missile.effect, boss.damage)]

CastDrain(player, boss) ==
  [player |-> Player(player.hit_pts + drain.effect, player.mana - drain.cost),
   boss |-> Boss(boss.hit_pts - drain.effect, boss.damage)]

CastShield(player, boss, effects, raw) ==
  LET d == raw - shield.effect
      boss_dmg == IF d < 1 THEN 1 ELSE d
  IN  [player |-> Player(player.hit_pts, player.mana - shield.cost),
       boss |-> Boss(boss.hit_pts, boss_dmg),
       effects |-> Effects(shield.turns, effects.poison, effects.recharge)]

CastPoison(player, effects) ==
  [player |-> Player(player.hit_pts, player.mana - poison.cost),
   effects |-> Effects(effects.shield, poison.turns, effects.recharge)]

CastRecharge(player, effects) ==
  [player |-> Player(player.hit_pts, player.mana - recharge.cost),
   effects |-> Effects(effects.shield, effects.poison, recharge.turns)]

(***************************************************************************)
(* _add_player_moves: the moves list after the pushes of one player turn.  *)
(***************************************************************************)
\* `player.mana >= spell.cost`: the player has the mana the spell costs
CanPayOnCredit(player, spell) == TRUE
CanPay(player, spell) == player.mana >= spell.cost

\* `not effects.shield` (and poison, recharge): the timer is zero
InactiveOrNot(timer) == TRUE
Inactive(timer) == timer = 0

AfterRecharge(move, moves, player, boss, effects) ==
  IF Inactive(effects.recharge) /\ CanPay(player, recharge)
  THEN LET c == CastRecharge(player, effects)
       IN  PushNew(moves, Move(move.turn + 1, move.mana_used + recharge.cost,
                               c.player, boss, c.effects))
  ELSE moves

AfterPoison(move, moves, player, boss, effects) ==
  LET pushed ==
        IF Inactive(effects.poison) /\ CanPay(player, poison)
        THEN LET c == CastPoison(player, effects)
             IN  PushNew(moves, Move(move.turn + 1, move.mana_used + poison.cost,
                                     c.player, boss, c.effects))
        ELSE moves
  IN  AfterRecharge(move, pushed, player, boss, effects)

AfterShield(move, moves, player, boss, effects, raw) ==
  LET pushed ==
        IF Inactive(effects.shield) /\ CanPay(player, shield)
        THEN LET c == CastShield(player, boss, effects, raw)
             IN  PushNew(moves, Move(move.turn + 1, move.mana_used + shield.cost,
                                     c.player, c.boss, c.effects))
        ELSE moves
  IN  AfterPoison(move, pushed, player, boss, effects)

AfterDrain(move, moves, player, boss, effects, raw) ==
  IF CanPay(player, drain)
  THEN LET c == CastDrain(player, boss)
           pushed == PushNew(moves, Move(move.turn + 1,
                                         move.mana_used + drain.cost,
                                         c.player, c.boss, effects))
       IN  IF BossDefeated(c.boss) THEN pushed
           ELSE AfterShield(move, pushed, player, boss, effects, raw)
  ELSE AfterShield(move, moves, player, boss, effects, raw)

AddPlayerMoves(move, moves, player, boss, effects, raw) ==
  IF ~CanPay(player, magic_missile) THEN moves
  ELSE LET c == CastMagicMissile(player, boss)
           pushed == PushNew(moves, Move(move.turn + 1,
                                         move.mana_used + magic_missile.cost,
                                         c.player, c.boss, effects))
       IN  IF BossDefeated(c.boss) THEN pushed
           ELSE AfterDrain(move, pushed, player, boss, effects, raw)

(***************************************************************************)
(* _add_boss_move                                                          *)
(***************************************************************************)
AddBossMoveSkipsTurn(move, moves, player, boss, effects) ==
  PushNew(moves, Move(move.turn + 2, move.mana_used,
                      Player(player.hit_pts - boss.damage, player.mana),
                      boss, effects))

AddBossMove(move, moves, player, boss, effects) ==
  IF player.hit_pts < 1 THEN moves
  ELSE PushNew(moves, Move(move.turn + 1, move.mana_used,
                           Player(player.hit_pts - boss.damage, player.mana),
                           boss, effects))

(***************************************************************************)
(* _apply_spells: the start of a turn.                                     *)
(***************************************************************************)
IsOdd(n) == n % 2 = 1

ApplySpellsCore(move, loses_hit_pt, raw) ==
  LET player_hp == IF loses_hit_pt
                   THEN move.player.hit_pts - 1 ELSE move.player.hit_pts
      boss_dmg == IF move.effects.shield = 0 THEN raw ELSE move.boss.damage
      boss_hp == IF move.effects.poison # 0
                 THEN move.boss.hit_pts - poison.effect ELSE move.boss.hit_pts
      player_mana == IF move.effects.recharge # 0
                     THEN move.player.mana + recharge.effect
                     ELSE move.player.mana
      dec(t) == IF t # 0 THEN t - 1 ELSE 0
  IN  [player |-> Player(player_hp, player_mana),
       boss |-> Boss(boss_hp, boss_dmg),
       effects |-> Effects(dec(move.effects.shield), dec(move.effects.poison),
                           dec(move.effects.recharge))]

\* slips of the hard mode test of line 389
ApplySpellsEveryTurn(move, hard, raw) == ApplySpellsCore(move, hard, raw)
ApplySpellsInvertedMode(move, hard, raw) ==
  ApplySpellsCore(move, ~hard /\ ~IsOdd(move.turn), raw)

ApplySpellsBossTurns(move, hard, raw) ==
  ApplySpellsCore(move, hard /\ IsOdd(move.turn), raw)

\* a slip of line 392: the damage of the move is kept
ApplySpellsKeepsDamage(move, hard, raw) ==
  ApplySpellsCore(move, hard /\ ~IsOdd(move.turn), move.boss.damage)

ApplySpells(move, hard, raw) ==
  ApplySpellsCore(move, hard /\ ~IsOdd(move.turn), raw)

(***************************************************************************)
(* The game as the puzzle text states it (module docstring of day_22.py):  *)
(* the play sequences the search is meant to range over.  A game state is  *)
(* the two sides' hit points, the player's mana and the three timers.      *)
(***************************************************************************)
SpellNames == {"magic_missile", "drain", "shield", "poison", "recharge"}

SpellCost(s) ==
  CASE s = "magic_missile" -> 53
    [] s = "drain" -> 73
    [] s = "shield" -> 113
    [] s = "poison" -> 173
    [] s = "recharge" -> 229

\* The start of a turn: the hard-mode loss of a hit point on the player's
\* turns, then every active effect applies and its timer drops by one.
GameTurnStart(g, playerTurn, hard) ==
  [hp |-> IF hard /\ playerTurn THEN g.hp - 1 ELSE g.hp,
   mana |-> IF g.re > 0 THEN g.mana + 101 ELSE g.mana,
   bhp |-> IF g.po > 0 THEN g.bhp - 3 ELSE g.bhp,
   sh |-> IF g.sh > 0 THEN g.sh - 1 ELSE 0,
   po |-> IF g.po > 0 THEN g.po - 1 ELSE 0,
   re |-> IF g.re > 0 THEN g.re - 1 ELSE 0]

\* A spell may be cast when it is paid for and would not restart an effect
\* that is still active.
GameLegal(g, s) ==
  /\ g.mana >= SpellCost(s)
  /\ s = "shield" => g.sh = 0
  /\ s = "poison" => g.po = 0
  /\ s = "recharge" => g.re = 0

GameCast(g, s) ==
  LET paid == [g EXCEPT !.mana = @ - SpellCost(s)]
  IN  CASE s = "magic_missile" -> [paid EXCEPT !.bhp = @ - 4]
        [] s = "drain" -> [paid EXCEPT !.bhp = @ - 2, !.hp = @ + 2]
        [] s = "shield" -> [paid EXCEPT !.sh = 6]
        [] s = "poison" -> [paid EXCEPT !.po = 6]
        [] s = "recharge" -> [paid EXCEPT !.re = 5]

\* The boss' attack: armor 7 while the shield is active, at least 1 damage.
GameBossAttack(g, dmg) ==
  LET armor == IF g.sh > 0 THEN 7 ELSE 0
      dealt == IF dmg - armor < 1 THEN 1 ELSE dmg - armor
  IN  [g EXCEPT !.hp = @ - dealt]

\* Whether the player has a winning play from g that spends at most budget.
RECURSIVE CanWin(_, _, _, _, _)
CanWin(g, playerTurn, budget, hard, dmg) ==
  LET s == GameTurnStart(g, playerTurn, hard)
  IN  IF hard /\ playerTurn /\ s.hp <= 0 THEN FALSE
      ELSE IF s.bhp <= 0 THEN TRUE
      ELSE IF playerTurn
      THEN \E sp \in SpellNames :
             /\ GameLegal(s, sp)
             /\ SpellCost(sp) <= budget
             /\ LET c == GameCast(s, sp)
                IN  \/ c.bhp <= 0
                    \/ CanWin(c, FALSE, budget - SpellCost(sp), hard, dmg)
      ELSE LET a == GameBossAttack(s, dmg)
           IN  a.hp > 0 /\ CanWin(a, TRUE, budget, hard, dmg)

GameInit(boss_hp) ==
  [hp |-> PlayerHitPts, mana |-> PlayerMana, bhp |-> boss_hp,
   sh |-> 0, po |-> 0, re |-> 0]

\* There is a winning play of total cost at most budget / none at all.
Winnable(boss, hard, budget) ==
  CanWin(GameInit(boss.hit_pts), TRUE, budget, hard, boss.damage)


(***************************************************************************)
(* Puzzle input text.  A text is a sequence of tokens: a run of digits     *)
(* (kind "num"), a run of other visible characters (kind "word") or a run  *)
(* of white space (kind "ws").                                             *)
(***************************************************************************)
Num(n) == [kind |-> "num", val |-> n]
Word(w) == [kind |-> "word", val |-> w]
Ws == [kind |-> "ws", val |-> "\n"]

\* '\n'.join(('Hit Points: h', 'Damage: d'))
BossText(h, d) == << Word("Hit Points: "), Num(h), Ws, Word("Damage: "), Num(d) >>

\* str.rstrip() and str.strip(): the text without its trailing / outer white space
RECURSIVE RStrip(_)
RStrip(text) ==
  IF text # << >> /\ text[Len(text)].kind = "ws"
  THEN RStrip(SubSeq(text, 1, Len(text) - 1))
  ELSE text

RECURSIVE LStrip(_)
LStrip(text) ==
  IF text # << >> /\ Head(text).kind = "ws" THEN LStrip(Tail(text)) ELSE text

Strip(text) == LStrip(RStrip(text))

\* re.findall(r'\d+', text): the digit runs, in order, as integers
IsNum(tok) == tok.kind = "num"
FindNumbers(text) ==
  LET nums == SelectSeq(text, IsNum)
  IN  [i \in 1..Len(nums) |-> nums[i].val]

\* _get_boss: the boss and the raw damage it stores in the solver
GetBossRawDamage(old_raw, text) == FindNumbers(Strip(text))[2]

GetBoss(old_raw, text) ==
  Boss(FindNumbers(Strip(text))[1], GetBossRawDamage(old_raw, text))

(***************************************************************************)
(* Output text: str() of an integer and the Day 22 template.               *)
(***************************************************************************)
DigitChars == << "0", "1", "2", "3", "4", "5", "6", "7", "8", "9" >>

RECURSIVE Str(_)
Str(n) ==
  IF n < 10 THEN << DigitChars[n + 1] >>
  ELSE Str(n \div 10) \o << DigitChars[(n % 10) + 1] >>

\* self._solved_output.format(a, b)
SolvedOutput(a, b) ==
  << "The least amount of mana needed to win normally is " >> \o a
     \o << ".", "\n", "The least amount of mana needed to win on hard mode is " >>
     \o b

(***************************************************************************)
(* The solver table of the factory.                                        *)
(***************************************************************************)
aoc_solvers ==
  << "day_01", "day_02", "day_03", "day_04", "day_05", "day_06", "day_07",
     "day_08", "day_09", "day_10", "day_11", "day_12", "day_13", "day_14",
     "day_15", "day_16", "day_17", "day_18", "day_19", "day_20", "day_21",
     "day_22", "day_23", "day_24", "day_25" >>

\* Python's tuple[i]: 0-based, a negative index counts from the end
PyIndex(t, i) ==
  IF 0 <= i /\ i < Len(t) THEN t[i + 1]
  ELSE IF -Len(t) <= i /\ i < 0 THEN t[Len(t) + i + 1]
  ELSE "IndexError"

\* `if 0 < day <= len(aoc_solvers)`
DayInRangeNoLowerBound(d) == d <= Len(aoc_solvers)
DayInRange(d) == 0 < d /\ d <= Len(aoc_solvers)

\* get_solver: the module whose Solver is instantiated, or the error raised
GetSolverModule(d) ==
  IF DayInRange(d) THEN PyIndex(aoc_solvers, d - 1) ELSE "ValueError"

(***************************************************************************)
(* State.                                                                  *)
(***************************************************************************)
None == "None"

\* None where a text is expected
NoneText == << [kind |-> "None", val |-> "None"] >>

\* nothing returned yet
NoAnswers == << >>
NoOutput == << >>

VARIABLES
  day,              \* the day argument of factory.get_solver
  solver_module,    \* the module of the solver get_solver returned
  file_name,        \* AdventOfCodeSolver._file_name
  file,             \* the file of that name: is it readable, and its content
  puzzle_input,     \* AdventOfCodeSolver._puzzle_input
  boss_raw_damage,  \* Solver._boss_raw_damage
  alt_input,        \* the argument of the running get_puzzle_solution
  mana_hard_mode,   \* local of _solve_puzzle_parts
  answers,          \* what _solve_puzzle_parts returned
  output,           \* what get_puzzle_solution returned
  hard_mode,        \* the hard_mode argument of the running _get_min_mana
  first_boss,       \* the boss argument of the running _get_min_mana
  moves,            \* the heap of _get_min_mana
  min_mana_used,    \* the best win of the running _get_min_mana
  test_cases,       \* run_test_cases: the fixtures not yet run
  tests_left,       \* how many more fixtures a generated fixture list holds
  test_case,        \* the fixture of the running _run_test_case, if any
  correct_output,   \* local of _run_test_case
  stdout,           \* what has been printed
  stderr,           \* the diagnostic of sys.exit
  exit_status,      \* the exit status of the process once it has exited
  trace,            \* the steps of the running get_puzzle_solution, in order
  calls,            \* the completed get_puzzle_solution calls: input, answers,
                    \* steps and the fixture that was being run, if any
  d9_inputs,        \* Day 9: the two inputs x and y that are solved
  towns,            \* Day 9: Solver._towns of each solver instance
  routes,           \* Day 9: Solver._routes of each solver instance
  d9_solutions,     \* Day 9: what each instance's calls returned or raised
  program,          \* Day 23: the parsed program of _solve_puzzle_parts
  computer_pt1,     \* Day 23: the Computer that starts from a = 0
  computer_pt2,     \* Day 23: the Computer that starts from a = 1
  password,         \* Day 11: the list of character codes being incremented
  new_password,     \* Day 11: what _get_next_password returned
  min_presents,     \* Day 20: local of _solve_puzzle_parts
  house_num,        \* Day 20: local of _solve_puzzle_parts
  min_house_num,    \* Day 20: local of _solve_puzzle_parts
  alt_num,          \* Day 20: local of _solve_puzzle_parts
  simple_grid,      \* Day 6: the SimpleLightGrid of _solve_puzzle_parts
  complex_grid,     \* Day 6: the ComplexLightGrid of _solve_puzzle_parts
  instruction,      \* Day 6: the line of the input the loop is at
  wire_tracker,     \* Day 7: Solver._wire_tracker
  signaling_circuits,     \* Day 7: local of _propagate_signals
  nonsignaling_circuits,  \* Day 7: local of _propagate_signals
  pass_wires,       \* Day 7: what is left of sorted(signaling_circuits)
  evaluated,        \* Day 7: the last call of _get_circuit_signal
  iteration,        \* the last iteration of `while moves`: the move popped,
                    \* the best win before it, what the effects made of it
                    \* and how the iteration ended
  wins,             \* the wins the running search has recorded, in order
  pc                \* where the program is

day9Vars == << d9_inputs, towns, routes, d9_solutions >>
day23Vars == << program, computer_pt1, computer_pt2 >>
day11Vars == << password, new_password >>
day20Vars == << min_presents, house_num, min_house_num, alt_num >>
day6Vars == << simple_grid, complex_grid, instruction >>
day7Vars == << wire_tracker, signaling_circuits, nonsignaling_circuits,
              pass_wires, evaluated >>
otherSolvers == << day9Vars, day23Vars, day11Vars, day20Vars, day6Vars, day7Vars >>
logVars == << iteration, wins >>
factoryVars == << day, solver_module, file_name, file >>
instVars == << puzzle_input, boss_raw_damage >>
frameVars == << alt_input, mana_hard_mode, answers, output >>
searchVars == << hard_mode, first_boss, moves, min_mana_used >>
testVars == << test_cases, tests_left, test_case, correct_output >>
procVars == << stdout, stderr, exit_status >>
histVars == << trace, calls >>

vars == << otherSolvers, logVars, factoryVars, instVars, frameVars, searchVars, testVars, procVars,
           histVars, pc >>

(***************************************************************************)
(* _get_min_mana: one iteration of `while moves` per step.                 *)
(***************************************************************************)
InitialMoves(player, boss) == << Move(0, 0, player, boss, Effects(0, 0, 0)) >>

\* `min_mana_used = sys.maxsize`: the best win a search starts from, whatever
\* the search before it found
StartingBestKept(previous) == previous
StartingBestZero(previous) == 0
StartingBest(previous) == MaxSize

\* `move = heapq.heappop(moves)`: the least move, and the heap without it
Popped == Head(moves)
HeapKept(heap) == heap
AfterHeapPop(heap) == Tail(heap)
Applied == ApplySpells(Popped, hard_mode, boss_raw_damage)

Searching == pc = "search" /\ moves # << >>

\* the record of one iteration: the move popped, the frontier it was popped
\* from, the best win so far, what _apply_spells returned (if it was called)
\* and the branch the iteration took
NoIteration == << >>
Iteration(outcome, applied) ==
  << [move |-> Popped, rest |-> AfterHeapPop(moves), best |-> min_mana_used,
      applied |-> applied, outcome |-> outcome] >>

\* what no step of the loop changes
LoopFrame ==
  UNCHANGED << otherSolvers, factoryVars, instVars, frameVars, hard_mode, first_boss,
               testVars, procVars, histVars >>

\* `move.player.hit_pts < 1 or move.mana_used > min_mana_used`
Pruned(move, best) == move.player.hit_pts < 1 \/ move.mana_used > best

\* lines 419-420
SkipMove ==
  /\ Searching
  /\ Pruned(Popped, min_mana_used)
  /\ moves' = AfterHeapPop(moves)
  /\ iteration' = Iteration("skip", << >>)
  /\ UNCHANGED << min_mana_used, wins, pc >>
  /\ LoopFrame

Expandable == Searching /\ ~Pruned(Popped, min_mana_used)

\* lines 421-423
RecordWin ==
  /\ Expandable
  /\ BossDefeated(Popped.boss)
  /\ min_mana_used' = Min(min_mana_used, Popped.mana_used)
  /\ moves' = AfterHeapPop(moves)
  /\ iteration' = Iteration("win", << >>)
  /\ wins' = Append(wins, Popped.mana_used)
  /\ UNCHANGED pc
  /\ LoopFrame

\* lines 424-426
LoseAfterEffects ==
  /\ Expandable
  /\ ~BossDefeated(Popped.boss)
  /\ Applied.player.hit_pts < 1
  /\ moves' = AfterHeapPop(moves)
  /\ iteration' = Iteration("loss_after_effects", << Applied >>)
  /\ UNCHANGED << min_mana_used, wins, pc >>
  /\ LoopFrame

\* lines 427-429
WinAfterEffects ==
  /\ Expandable
  /\ ~BossDefeated(Popped.boss)
  /\ Applied.player.hit_pts >= 1
  /\ BossDefeated(Applied.boss)
  /\ min_mana_used' = Min(min_mana_used, Popped.mana_used)
  /\ moves' = AfterHeapPop(moves)
  /\ iteration' = Iteration("win_after_effects", << Applied >>)
  /\ wins' = Append(wins, Popped.mana_used)
  /\ UNCHANGED pc
  /\ LoopFrame

BothAlive ==
  /\ Expandable
  /\ ~BossDefeated(Popped.boss)
  /\ Applied.player.hit_pts >= 1
  /\ ~BossDefeated(Applied.boss)

\* lines 430-431
BossTurn ==
  /\ BothAlive
  /\ IsOdd(Popped.turn)
  /\ moves' = AddBossMove(Popped, AfterHeapPop(moves), Applied.player, Applied.boss,
                          Applied.effects)
  /\ iteration' = Iteration("boss_turn", << Applied >>)
  /\ UNCHANGED << min_mana_used, wins, pc >>
  /\ LoopFrame

\* lines 432-433
PlayerTurn ==
  /\ BothAlive
  /\ ~IsOdd(Popped.turn)
  /\ moves' = AddPlayerMoves(Popped, AfterHeapPop(moves), Applied.player, Applied.boss,
                             Applied.effects, boss_raw_damage)
  /\ iteration' = Iteration("player_turn", << Applied >>)
  /\ UNCHANGED << min_mana_used, wins, pc >>
  /\ LoopFrame

\* line 434
ReturnMinMana ==
  /\ pc = "search"
  /\ moves = << >>
  /\ pc' = "returned"
  /\ UNCHANGED << moves, min_mana_used, logVars >>
  /\ LoopFrame

(***************************************************************************)
(* SpecSearch: one call of _get_min_mana for a boss and a mode.            *)
(***************************************************************************)
BossHps == 1..MaxBossHp
BossDamages == 1..MaxBossDamage

\* a boss that lasts long enough for every effect to run out and be cast
\* again
LongFightBosses == {Boss(30, 8)}

\* "Damage: 0" is an input _get_boss parses like any other
HarmlessBosses == {Boss(h, 0) : h \in BossHps}

\* no call has been made, nothing has been printed
Instances == {"fresh", "used"}

\* the solvers of the other days have not been called
OtherDaysIdle ==
  /\ program = << >>
  /\ computer_pt1 = None
  /\ computer_pt2 = None
  /\ password = << >>
  /\ new_password = NoneText
  /\ min_presents = None
  /\ house_num = None
  /\ min_house_num = NoAnswers
  /\ alt_num = NoAnswers
  /\ simple_grid = << >>
  /\ complex_grid = << >>
  /\ instruction = << >>
  /\ wire_tracker = << >>
  /\ signaling_circuits = {}
  /\ nonsignaling_circuits = {}
  /\ pass_wires = << >>
  /\ evaluated = << >>

NothingRun ==
  /\ OtherDaysIdle
  /\ iteration = NoIteration
  /\ wins = << >>
  /\ d9_inputs = None
  /\ towns = [i \in Instances |-> {}]
  /\ routes = [i \in Instances |-> None]
  /\ d9_solutions = [i \in Instances |-> << >>]
  /\ alt_input = NoneText
  /\ mana_hard_mode = None
  /\ answers = NoAnswers
  /\ output = NoOutput
  /\ test_cases = << >>
  /\ test_case = << >>
  /\ correct_output = NoOutput
  /\ stdout = << >>
  /\ stderr = << >>
  /\ exit_status = None
  /\ trace = << >>
  /\ calls = << >>

InitSearch ==
  /\ day = 22
  /\ solver_module = "day_22"
  /\ file_name = None
  /\ file = None
  /\ NothingRun
  /\ tests_left = 0
  /\ first_boss \in {Boss(h, d) : h \in BossHps, d \in BossDamages}
                    \cup LongFightBosses \cup HarmlessBosses
  /\ puzzle_input = BossText(first_boss.hit_pts, first_boss.damage)
  /\ boss_raw_damage = GetBossRawDamage(None, puzzle_input)
  /\ hard_mode \in BOOLEAN
  /\ moves = InitialMoves(Player(PlayerHitPts, PlayerMana), first_boss)
  /\ min_mana_used = MaxSize
  /\ pc = "search"

NextSearch ==
  \/ SkipMove
  \/ RecordWin
  \/ LoseAfterEffects
  \/ WinAfterEffects
  \/ BossTurn
  \/ PlayerTurn
  \/ ReturnMinMana

SpecSearch == InitSearch /\ [][NextSearch]_vars

\* the loop of _get_min_mana is sequential code that runs on while it can:
\* an iteration that can be taken is taken
\* Fewer bosses than InitSearch, some of them unbeatable, and the long fight.
MaxLiveBossHp == 6
LiveBossDamages == {1, 8, 48, 50}

InitSearchLive ==
  /\ InitSearch
  /\ first_boss \in {Boss(h, d) : h \in 1..MaxLiveBossHp, d \in LiveBossDamages}
                    \cup LongFightBosses

SpecSearchLive == InitSearchLive /\ [][NextSearch]_vars /\ WF_vars(NextSearch)

(***************************************************************************)
(* factory.get_solver                                                      *)
(***************************************************************************)
GetSolver ==
  /\ pc = "get_solver"
  /\ solver_module' = GetSolverModule(day)
  /\ pc' = CASE solver_module' = "ValueError" -> "ValueError"
             [] solver_module' = "day_22" -> "solver"
             [] OTHER -> "other_solver"
  /\ UNCHANGED << otherSolvers, logVars, day, file_name, file, instVars, frameVars, searchVars,
                  testVars, procVars, histVars >>

(***************************************************************************)
(* The two entry points of a solver: run_test_cases and                    *)
(* get_puzzle_solution() on the solver's file.                             *)
(***************************************************************************)
CallRunTestCases ==
  /\ pc = "solver"
  /\ pc' = "run_test_cases"
  /\ UNCHANGED << otherSolvers, logVars, factoryVars, instVars, frameVars, searchVars, testVars,
                  procVars, histVars >>

CallGetPuzzleSolution ==
  /\ pc = "solver"
  /\ file_name # None
  /\ alt_input' = NoneText
  /\ trace' = << >>
  /\ pc' = "get_puzzle_solution"
  /\ UNCHANGED << otherSolvers, logVars, factoryVars, instVars, mana_hard_mode, answers, output,
                  searchVars, testVars, procVars, calls >>

(***************************************************************************)
(* _run_test_case, lines 103-107: the expected output is formatted, then   *)
(* get_puzzle_solution is called with the fixture's input.                 *)
(***************************************************************************)
TestCase(input, expected1, expected2) ==
  [input |-> input, expected1 |-> expected1, expected2 |-> expected2]

RunTestCase(tc) ==
  /\ pc = "run_test_cases"
  /\ test_case' = << tc >>
  /\ correct_output' = SolvedOutput(Str(tc.expected1), Str(tc.expected2))
  /\ alt_input' = tc.input
  /\ trace' = << >>
  /\ pc' = "get_puzzle_solution"
  /\ UNCHANGED << otherSolvers, logVars, factoryVars, instVars, mana_hard_mode, answers, output,
                  searchVars, procVars, calls >>

\* run_test_cases of day_22.py, lines 454-461
Day22TestCases ==
  << TestCase(BossText(1, 100), 53, 53),
     TestCase(BossText(5, 49), 106, 126),
     TestCase(BossText(50, 1), 787, 787),
     TestCase(BossText(50, 8), 787, 900) >>

RunNextTestCase ==
  /\ test_cases # << >>
  /\ RunTestCase(Head(test_cases))
  /\ test_cases' = Tail(test_cases)
  /\ UNCHANGED tests_left

\* a fixture list of MaxTestCases fixtures drawn from small sets
MaxTestCases == 2
MaxLifeBossHp == 6
LifeBossDamages == {1, 8, 48}
ExpectedPairs == { << 106, 106 >> }
LifeBossTexts == {BossText(h, d) : h \in 1..MaxLifeBossHp, d \in LifeBossDamages}
AnyTestCases ==
  {TestCase(t, e[1], e[2]) : t \in LifeBossTexts, e \in ExpectedPairs}

RunAnyTestCase ==
  /\ test_cases = << >>
  /\ tests_left > 0
  /\ \E tc \in AnyTestCases : RunTestCase(tc)
  /\ tests_left' = tests_left - 1
  /\ UNCHANGED test_cases

FinishTestCases ==
  /\ pc = "run_test_cases"
  /\ test_cases = << >>
  /\ tests_left = 0
  /\ pc' = "done"
  /\ UNCHANGED << otherSolvers, logVars, factoryVars, instVars, frameVars, searchVars, testVars,
                  procVars, histVars >>

(***************************************************************************)
(* get_puzzle_solution and _load_puzzle_file                               *)
(***************************************************************************)
\* `if alt_input is None`
ReadsFileWhenNamed(alt) == alt = NoneText \/ file_name # None
ReadsFile(alt) == alt = NoneText

\* the two lines sys.exit() is given
LoadErrorMessage(name) ==
  << << "ERROR: Failed to read the puzzle input from file \"", name, "\"" >>,
     << "[Errno] ", name >> >>

\* where the program is after the IOError of a failed load
AfterLoadErrorGoesOn == "solve"
AfterLoadError == "exited"

LoadPuzzleFile ==
  /\ pc = "get_puzzle_solution"
  /\ ReadsFile(alt_input)
  /\ file.readable
  /\ puzzle_input' = RStrip(file.content)
  /\ trace' = Append(trace, "load_file")
  /\ pc' = "solve"
  /\ UNCHANGED << otherSolvers, logVars, factoryVars, boss_raw_damage, frameVars, searchVars,
                  testVars, procVars, calls >>

LoadPuzzleFileError ==
  /\ pc = "get_puzzle_solution"
  /\ ReadsFile(alt_input)
  /\ ~file.readable
  /\ stderr' = LoadErrorMessage(file_name)
  /\ exit_status' = 1
  /\ trace' = Append(trace, "load_error")
  /\ pc' = AfterLoadError
  /\ UNCHANGED << otherSolvers, logVars, factoryVars, instVars, frameVars, searchVars, testVars,
                  stdout, calls >>

SetAltInput ==
  /\ pc = "get_puzzle_solution"
  /\ ~ReadsFile(alt_input)
  /\ puzzle_input' = alt_input
  /\ trace' = Append(trace, "alt_input")
  /\ pc' = "solve"
  /\ UNCHANGED << otherSolvers, logVars, factoryVars, boss_raw_damage, frameVars, searchVars,
                  testVars, procVars, calls >>

(***************************************************************************)
(* _solve_puzzle_parts of day_22.py: the hard mode search runs first.      *)
(***************************************************************************)
SolveHardMode ==
  /\ pc = "solve"
  /\ boss_raw_damage' = GetBossRawDamage(boss_raw_damage, puzzle_input)
  /\ first_boss' = GetBoss(boss_raw_damage, puzzle_input)
  /\ hard_mode' = TRUE
  /\ moves' = InitialMoves(Player(PlayerHitPts, PlayerMana), first_boss')
  /\ min_mana_used' = StartingBest(min_mana_used)
  /\ trace' = Append(trace, "solve")
  /\ iteration' = NoIteration
  /\ wins' = << >>
  /\ pc' = "search"
  /\ UNCHANGED << otherSolvers, factoryVars, puzzle_input, frameVars, testVars, procVars,
                  calls >>

SolveNormalMode ==
  /\ pc = "returned"
  /\ hard_mode
  /\ mana_hard_mode' = min_mana_used
  /\ hard_mode' = FALSE
  /\ moves' = InitialMoves(Player(PlayerHitPts, PlayerMana), first_boss)
  /\ min_mana_used' = StartingBest(min_mana_used)
  /\ iteration' = NoIteration
  /\ wins' = << >>
  /\ pc' = "search"
  /\ UNCHANGED << otherSolvers, factoryVars, instVars, alt_input, answers, output,
                  first_boss, testVars, procVars, histVars >>

\* `return (mana_normal_mode, mana_hard_mode)`
SolvedPartsSwapped(mana_normal, mana_hard) == << mana_hard, mana_normal >>
SolvedParts(mana_normal, mana_hard) == << mana_normal, mana_hard >>

ReturnAnswers ==
  /\ pc = "returned"
  /\ ~hard_mode
  /\ answers' = SolvedParts(min_mana_used, mana_hard_mode)
  /\ pc' = "format"
  /\ UNCHANGED << otherSolvers, logVars, factoryVars, instVars, alt_input, mana_hard_mode, output,
                  searchVars, testVars, procVars, histVars >>

\* line 94 of solver.py
FormatSolution ==
  /\ pc = "format"
  /\ output' = SolvedOutput(Str(answers[1]), Str(answers[2]))
  /\ trace' = Append(trace, "format")
  /\ calls' = Append(calls, [input |-> puzzle_input, answers |-> answers,
                             trace |-> trace', test_case |-> test_case])
  /\ pc' = "got_solution"
  /\ UNCHANGED << otherSolvers, logVars, factoryVars, instVars, alt_input, mana_hard_mode, answers,
                  searchVars, testVars, procVars >>

(***************************************************************************)
(* _run_test_case, lines 108-113, and the print of __main__.               *)
(***************************************************************************)
\* `correct_output == test_output`
TestPassedAlways(correct, test) == TRUE
TestPassed(correct, test) == correct = test

TestReport(tc, correct, test) ==
  IF TestPassed(correct, test)
  THEN [verdict |-> "passed", input |-> tc.input]
  ELSE [verdict |-> "failed", input |-> tc.input, correct_output |-> correct,
        test_output |-> test]

ReportTestCase ==
  /\ pc = "got_solution"
  /\ test_case # << >>
  /\ stdout' = Append(stdout, TestReport(test_case[1], correct_output, output))
  /\ test_case' = << >>
  /\ pc' = "run_test_cases"
  /\ UNCHANGED << otherSolvers, logVars, factoryVars, instVars, frameVars, searchVars, test_cases,
                  tests_left, correct_output, stderr, exit_status, histVars >>

PrintSolution ==
  /\ pc = "got_solution"
  /\ test_case = << >>
  /\ stdout' = Append(stdout, output)
  /\ pc' = "done"
  /\ UNCHANGED << otherSolvers, logVars, factoryVars, instVars, frameVars, searchVars, testVars,
                  stderr, exit_status, histVars >>

(***************************************************************************)
(* Spec: a solver is asked for, and the Day 22 solver is used through one  *)
(* of its entry points.                                                    *)
(***************************************************************************)
MaxDay == 30
MaxFileBossHp == 3
FileBossDamages == {8, 49}
\* bosses no play beats: in hard mode only, and in both modes
UnbeatableBosses == {Boss(5, 50), Boss(5, 57)}
Files ==
  {[readable |-> FALSE, content |-> << >>]} \cup
  {[readable |-> TRUE, content |-> BossText(h, d) \o << Ws >>] :
     h \in 1..MaxFileBossHp, d \in FileBossDamages} \cup
  {[readable |-> TRUE, content |-> BossText(b.hit_pts, b.damage) \o << Ws >>] :
     b \in UnbeatableBosses}

Init ==
  /\ day \in (-MaxDay)..MaxDay
  /\ solver_module = None
  /\ file_name \in {None, "input.txt"}
  /\ file \in IF file_name = None \/ day # 22 THEN {None} ELSE Files
  /\ puzzle_input = NoneText
  /\ boss_raw_damage = None
  /\ NothingRun
  /\ tests_left = MaxTestCases
  /\ hard_mode = FALSE
  /\ first_boss = None
  /\ moves = << >>
  /\ min_mana_used = MaxSize
  /\ pc = "get_solver"

Next ==
  \/ GetSolver
  \/ CallRunTestCases
  \/ CallGetPuzzleSolution
  \/ RunAnyTestCase
  \/ FinishTestCases
  \/ LoadPuzzleFile
  \/ LoadPuzzleFileError
  \/ SetAltInput
  \/ SolveHardMode
  \/ SkipMove
  \/ RecordWin
  \/ LoseAfterEffects
  \/ WinAfterEffects
  \/ BossTurn
  \/ PlayerTurn
  \/ ReturnMinMana
  \/ SolveNormalMode
  \/ ReturnAnswers
  \/ FormatSolution
  \/ ReportTestCase
  \/ PrintSolution

Spec == Init /\ [][Next]_vars

(***************************************************************************)
(* SpecFixtures: run_test_cases of the Day 22 solver.                      *)
(***************************************************************************)
InitFixtures ==
  /\ day = 22
  /\ solver_module = "day_22"
  /\ file_name = None
  /\ file = None
  /\ puzzle_input = NoneText
  /\ boss_raw_damage = None
  /\ OtherDaysIdle
  /\ iteration = NoIteration
  /\ wins = << >>
  /\ d9_inputs = None
  /\ towns = [i \in Instances |-> {}]
  /\ routes = [i \in Instances |-> None]
  /\ d9_solutions = [i \in Instances |-> << >>]
  /\ alt_input = NoneText
  /\ mana_hard_mode = None
  /\ answers = NoAnswers
  /\ output = NoOutput
  /\ test_cases = Day22TestCases
  /\ tests_left = 0
  /\ test_case = << >>
  /\ correct_output = NoOutput
  /\ stdout = << >>
  /\ stderr = << >>
  /\ exit_status = None
  /\ trace = << >>
  /\ calls = << >>
  /\ hard_mode = FALSE
  /\ first_boss = None
  /\ moves = << >>
  /\ min_mana_used = MaxSize
  /\ pc = "solver"

NextFixtures ==
  \/ CallRunTestCases
  \/ RunNextTestCase
  \/ FinishTestCases
  \/ SetAltInput
  \/ SolveHardMode
  \/ SkipMove
  \/ RecordWin
  \/ LoseAfterEffects
  \/ WinAfterEffects
  \/ BossTurn
  \/ PlayerTurn
  \/ ReturnMinMana
  \/ SolveNormalMode
  \/ ReturnAnswers
  \/ FormatSolution
  \/ ReportTestCase

SpecFixtures == InitFixtures /\ [][NextFixtures]_vars

(***************************************************************************)
(* Day 9 (day_09.py): the towns of the input are kept in the instance      *)
(* field _towns, which is created once, in __init__.                       *)
(***************************************************************************)
MaxTowns == 4
MaxDistance == 2
TownNames == << "Aberdeen", "Belfast", "Cardiff", "Dublin", "Exeter", "Frome" >>
Towns == {TownNames[i] : i \in 1..MaxTowns}

\* the order of str: these names are in alphabetical order
TownRank(t) == CHOOSE i \in 1..Len(TownNames) : TownNames[i] = t
StrLess(t1, t2) == TownRank(t1) < TownRank(t2)

\* one line of input, as line.split() sees it
RouteLine(t1, t2, d) == << t1, "to", t2, "=", d >>

\* _get_route
GetRoute(town1, town2) ==
  IF StrLess(town1, town2) THEN << town1, town2 >> ELSE << town2, town1 >>

\* _parse_route: the towns it adds to _towns, and the route entry
ParsedTowns(line) == {line[1], line[3]}
ParsedRoute(line) == [key |-> GetRoute(line[1], line[3]), distance |-> line[5]]

\* _parse_input: the dict of the routes (a later line replaces an earlier
\* one) and the towns that _parse_route has added meanwhile
RECURSIVE ParseInput(_, _)
ParseInput(lines, parsed) ==
  IF lines = << >> THEN parsed
  ELSE LET r == ParsedRoute(Head(lines))
           keys == DOMAIN parsed \cup {r.key}
       IN  ParseInput(Tail(lines),
                      [k \in keys |-> IF k = r.key THEN r.distance ELSE parsed[k]])

EmptyDict == [k \in {} |-> 0]

\* _towns after the parse: _parse_route only ever adds to the set that
\* __init__ created
TownsAfterParse(old_towns, lines) ==
  old_towns \cup UNION {ParsedTowns(lines[i]) : i \in 1..Len(lines)}

\* itertools.permutations(s, len(s))
PermutationsOf(s) ==
  {p \in [1..Cardinality(s) -> s] : \A i, j \in 1..Cardinality(s) :
                                      i # j => p[i] # p[j]}

\* _get_cycle: the set of the routes of the closed path
GetCycle(fixed_point, sub_path) ==
  LET n == Len(sub_path)
      stop(i) == IF i = 0 \/ i = n + 1 THEN fixed_point ELSE sub_path[i]
  IN  {GetRoute(stop(i), stop(i + 1)) : i \in 0..n}

\* sorted(self._routes[route] for route in cycle)
RECURSIVE SortedDistances(_, _)
SortedDistances(cycle, dict) ==
  IF cycle = {} THEN << >>
  ELSE LET least == CHOOSE r \in cycle : \A q \in cycle : dict[r] <= dict[q]
       IN  << dict[least] >> \o SortedDistances(cycle \ {least}, dict)

RECURSIVE SumSeq(_)
SumSeq(q) == IF q = << >> THEN 0 ELSE Head(q) + SumSeq(Tail(q))

AllButLast(q) == SubSeq(q, 1, Len(q) - 1)

\* sum(distances[:-1]) and sum(distances[1:]) of one cycle
ShortPath(cycle, dict) == SumSeq(AllButLast(SortedDistances(cycle, dict)))
LongPath(cycle, dict) == SumSeq(Tail(SortedDistances(cycle, dict)))

SetMin(s) == CHOOSE a \in s : \A b \in s : a <= b
SetMax(s) == CHOOSE a \in s : \A b \in s : a >= b

\* _solve_puzzle_parts after the parse and the pop: the pair of answers, or
\* the KeyError of a route that the input does not give
Day9Answers(fixed_point, rest, dict) ==
  LET cycles == {GetCycle(fixed_point, p) : p \in PermutationsOf(rest)}
  IN  IF \E c \in cycles : \E r \in c : r \notin DOMAIN dict
      THEN << "KeyError" >>
      ELSE << SetMin({ShortPath(c, dict) : c \in cycles} \cup {MaxSize}),
              SetMax({LongPath(c, dict) : c \in cycles} \cup {-1}) >>

\* get_puzzle_solution(input) of the Day 9 solver `inst`; set.pop() removes
\* an arbitrary town
Day9GetPuzzleSolution(inst, input) ==
  LET all == TownsAfterParse(towns[inst], input)
      dict == ParseInput(input, EmptyDict)
  IN  /\ routes' = [routes EXCEPT ![inst] = dict]
      /\ \E fixed_point \in all :
           /\ towns' = [towns EXCEPT ![inst] = all \ {fixed_point}]
           /\ d9_solutions' =
                [d9_solutions EXCEPT
                   ![inst] = Append(@, Day9Answers(fixed_point,
                                                   all \ {fixed_point}, dict))]

Day9Frame ==
  UNCHANGED << d9_inputs, day23Vars, day11Vars, day20Vars, day6Vars, day7Vars, logVars, factoryVars, instVars, frameVars, searchVars,
               testVars, procVars, histVars >>

UsedSolvesY ==
  /\ pc = "used_solves_y"
  /\ Day9GetPuzzleSolution("used", d9_inputs.y)
  /\ pc' = "used_solves_x"
  /\ Day9Frame

UsedSolvesX ==
  /\ pc = "used_solves_x"
  /\ Day9GetPuzzleSolution("used", d9_inputs.x)
  /\ pc' = "fresh_solves_x"
  /\ Day9Frame

FreshSolvesX ==
  /\ pc = "fresh_solves_x"
  /\ Day9GetPuzzleSolution("fresh", d9_inputs.x)
  /\ pc' = "day9_done"
  /\ Day9Frame

\* inputs that give every distance between two or three towns
Distances == 1..MaxDistance
TownPairs == {p \in Towns \X Towns : StrLess(p[1], p[2])}
TownTriples ==
  {p \in Towns \X Towns \X Towns : StrLess(p[1], p[2]) /\ StrLess(p[2], p[3])}
Day9Inputs ==
  {<< RouteLine(p[1], p[2], d) >> : p \in TownPairs, d \in Distances}
  \cup
  {<< RouteLine(p[1], p[2], d1), RouteLine(p[1], p[3], d2),
      RouteLine(p[3], p[2], d3) >> :
     p \in TownTriples, d1 \in Distances, d2 \in Distances, d3 \in Distances}

InitDay9 ==
  /\ day = 9
  /\ solver_module = "day_09"
  /\ file_name = None
  /\ file = None
  /\ puzzle_input = NoneText
  /\ boss_raw_damage = None
  /\ OtherDaysIdle
  /\ iteration = NoIteration
  /\ wins = << >>
  /\ d9_inputs \in [x : Day9Inputs, y : Day9Inputs]
  /\ towns = [i \in Instances |-> {}]
  /\ routes = [i \in Instances |-> None]
  /\ d9_solutions = [i \in Instances |-> << >>]
  /\ alt_input = NoneText
  /\ mana_hard_mode = None
  /\ answers = NoAnswers
  /\ output = NoOutput
  /\ test_cases = << >>
  /\ tests_left = 0
  /\ test_case = << >>
  /\ correct_output = NoOutput
  /\ stdout = << >>
  /\ stderr = << >>
  /\ exit_status = None
  /\ trace = << >>
  /\ calls = << >>
  /\ hard_mode = FALSE
  /\ first_boss = None
  /\ moves = << >>
  /\ min_mana_used = MaxSize
  /\ pc = "used_solves_y"

NextDay9 ==
  \/ UsedSolvesY
  \/ UsedSolvesX
  \/ FreshSolvesX

SpecDay9 == InitDay9 /\ [][NextDay9]_vars

(***************************************************************************)
(* Day 23 (day_23.py): _solve_puzzle_parts runs the parsed program on two  *)
(* Computer objects, one step of `while 0 <= ip < len(program)` at a time. *)
(***************************************************************************)
Instruction(type, register, value) ==
  [type |-> type, register |-> register, value |-> value]

\* Computer.__init__: `reg_a if reg_a else 0`
ComputerZeroed(reg_a, reg_b) ==
  [registers |-> [a |-> 0, b |-> 0], instruction_pointer |-> None]
Computer(reg_a, reg_b) ==
  [registers |-> [a |-> IF reg_a # 0 THEN reg_a ELSE 0,
                  b |-> IF reg_b # 0 THEN reg_b ELSE 0],
   instruction_pointer |-> None]

\* a line of the input as the three groups the pattern of _parse_input
\* captures: the three letters, the register ("" if there is none) and the
\* digits of the offset with their sign (<< >> if there are none)
Line(type, register, offset) ==
  [type |-> type, register |-> register, offset |-> offset]

\* `instruction.group(2) if instruction.group(2) else None`, and the same
\* with int() for group 3
ParseLine(line) ==
  Instruction(line.type,
              IF line.register # "" THEN line.register ELSE None,
              IF line.offset # << >> THEN line.offset[1] ELSE None)

Day23ParseInput(lines) == [i \in 1..Len(lines) |-> ParseLine(lines[i])]

\* Computer._process_instruction; Python indexes the program from 0
SetRegister(computer, r, v) ==
  [registers |-> [computer.registers EXCEPT ![r] = v],
   instruction_pointer |-> computer.instruction_pointer + 1]

Jump(computer, offset) ==
  [computer EXCEPT !.instruction_pointer = @ + offset]

\* `self._registers[instr.register] == 1`
JumpIfOdd(value) == value % 2 = 1
JumpIfOne(value) == value = 1

ProcessInstruction(computer, instr) ==
  CASE instr.type = "hlf" ->
         SetRegister(computer, instr.register,
                     computer.registers[instr.register] \div 2)
    [] instr.type = "tpl" ->
         SetRegister(computer, instr.register,
                     computer.registers[instr.register] * 3)
    [] instr.type = "inc" ->
         SetRegister(computer, instr.register,
                     computer.registers[instr.register] + 1)
    [] instr.type = "jmp" -> Jump(computer, instr.value)
    [] instr.type = "jie" /\ computer.registers[instr.register] % 2 = 0 ->
         Jump(computer, instr.value)
    [] instr.type = "jio" /\ JumpIfOne(computer.registers[instr.register]) ->
         Jump(computer, instr.value)
    [] OTHER -> Jump(computer, 1)

\* `0 <= self._instruction_pointer < number_of_instructions`
Running(computer, prog) ==
  /\ 0 <= computer.instruction_pointer
  /\ computer.instruction_pointer < Len(prog)

CurrentInstruction(computer, prog) == prog[computer.instruction_pointer + 1]

\* the registers are capped so that a program that counts for ever has
\* finitely many states
MaxRegister == 9
WithinRegisters(computer) ==
  /\ computer.registers.a <= MaxRegister
  /\ computer.registers.b <= MaxRegister

Day23Frame ==
  UNCHANGED << day9Vars, day11Vars, day20Vars, day6Vars, day7Vars, logVars, factoryVars, instVars,
               alt_input, mana_hard_mode, output, searchVars, testVars,
               procVars, histVars >>

\* lines 194-197: parse, construct both computers, enter run_program of the
\* first
Day23Solve ==
  /\ pc = "day23_solve"
  /\ program' = Day23ParseInput(puzzle_input)
  /\ computer_pt1' = [Computer(0, 0) EXCEPT !.instruction_pointer = 0]
  /\ computer_pt2' = Computer(1, 0)
  /\ pc' = "day23_run_pt1"
  /\ UNCHANGED answers
  /\ Day23Frame

StepPt1 ==
  /\ pc = "day23_run_pt1"
  /\ Running(computer_pt1, program)
  /\ computer_pt1' =
       ProcessInstruction(computer_pt1, CurrentInstruction(computer_pt1, program))
  /\ WithinRegisters(computer_pt1')
  /\ UNCHANGED << program, computer_pt2, answers, pc >>
  /\ Day23Frame

\* the first run_program returns and the second is entered (line 198)
HaltPt1 ==
  /\ pc = "day23_run_pt1"
  /\ ~Running(computer_pt1, program)
  /\ computer_pt2' = [computer_pt2 EXCEPT !.instruction_pointer = 0]
  /\ pc' = "day23_run_pt2"
  /\ UNCHANGED << program, computer_pt1, answers >>
  /\ Day23Frame

StepPt2 ==
  /\ pc = "day23_run_pt2"
  /\ Running(computer_pt2, program)
  /\ computer_pt2' =
       ProcessInstruction(computer_pt2, CurrentInstruction(computer_pt2, program))
  /\ WithinRegisters(computer_pt2')
  /\ UNCHANGED << program, computer_pt1, answers, pc >>
  /\ Day23Frame

\* line 199
Day23Return ==
  /\ pc = "day23_run_pt2"
  /\ ~Running(computer_pt2, program)
  /\ answers' = << computer_pt1.registers.b, computer_pt2.registers.b >>
  /\ pc' = "day23_done"
  /\ UNCHANGED << program, computer_pt1, computer_pt2 >>
  /\ Day23Frame

\* the programs of up to MaxProgramLen lines over a menu of instructions
MaxProgramLen == 3
Day23Lines ==
  {Line(t, r, << >>) : t \in {"inc", "tpl", "hlf"}, r \in {"a", "b"}}
  \cup {Line("jmp", "", << 2 >>), Line("jmp", "", << -1 >>)}
  \cup {Line(t, "a", << 2 >>) : t \in {"jie", "jio"}}

Day23Inputs == UNION {[1..n -> Day23Lines] : n \in 1..MaxProgramLen}

InitDay23 ==
  /\ day = 23
  /\ solver_module = "day_23"
  /\ file_name = None
  /\ file = None
  /\ puzzle_input \in Day23Inputs
  /\ boss_raw_damage = None
  /\ NothingRun
  /\ tests_left = 0
  /\ hard_mode = FALSE
  /\ first_boss = None
  /\ moves = << >>
  /\ min_mana_used = MaxSize
  /\ pc = "day23_solve"

NextDay23 ==
  \/ Day23Solve
  \/ StepPt1
  \/ HaltPt1
  \/ StepPt2
  \/ Day23Return

SpecDay23 == InitDay23 /\ [][NextDay23]_vars

\* The computer of the puzzle text (module docstring of day_23.py): the
\* value of register b when the program exits, from the given registers.
RECURSIVE RegisterBAtExit(_, _, _, _, _)
RegisterBAtExit(lines, a, b, at, fuel) ==
  IF at < 1 \/ at > Len(lines) THEN << b >>
  ELSE IF fuel = 0 THEN << >>
  ELSE LET l == lines[at]
           r == IF l.register = "a" THEN a ELSE b
           set(v) == IF l.register = "a"
                     THEN RegisterBAtExit(lines, v, b, at + 1, fuel - 1)
                     ELSE RegisterBAtExit(lines, a, v, at + 1, fuel - 1)
           jump(taken) ==
             RegisterBAtExit(lines, a, b,
                             IF taken THEN at + l.offset[1] ELSE at + 1,
                             fuel - 1)
       IN  CASE l.type = "hlf" -> set(r \div 2)
             [] l.type = "tpl" -> set(r * 3)
             [] l.type = "inc" -> set(r + 1)
             [] l.type = "jmp" -> jump(TRUE)
             [] l.type = "jie" -> jump(r % 2 = 0)
             [] l.type = "jio" -> jump(r = 1)

\* no run that exits is longer than the number of machine states
Day23Fuel == MaxProgramLen * (MaxRegister + 2) * (MaxRegister + 2)

(***************************************************************************)
(* Day 11 (day_11.py): _get_next_password, one _increment_password per     *)
(* step.  A password is the list of the character codes of its letters.    *)
(***************************************************************************)
Alphabet ==
  << "a", "b", "c", "d", "e", "f", "g", "h", "i", "j", "k", "l", "m",
     "n", "o", "p", "q", "r", "s", "t", "u", "v", "w", "x", "y", "z" >>

\* ord() and chr() on the lowercase letters
Ord(char) == 96 + (CHOOSE i \in 1..Len(Alphabet) : Alphabet[i] = char)
Chr(position) == Alphabet[position - 96]

\* `[ord(char) for char in old_password]` and
\* `''.join(chr(position) for position in password)`
Ords(text) == [i \in 1..Len(text) |-> Ord(text[i])]
Chrs(codes) == [i \in 1..Len(codes) |-> Chr(codes[i])]

\* `for i in range(6)`: password[i] + 2 == password[i + 1] + 1 == password[i + 2]
HasIncreasingStraight(pw) ==
  \E i \in 1..6 : pw[i] + 2 = pw[i + 1] + 1 /\ pw[i + 1] + 1 = pw[i + 2]

\* the set of the letters that are followed by themselves has two members
HasTwoCharPairs(pw) ==
  Cardinality({pw[i] : i \in {j \in 1..7 : pw[j] = pw[j + 1]}}) >= 2

IsValidNewPassword(pw) == HasIncreasingStraight(pw) /\ HasTwoCharPairs(pw)

ambiguous_chars == {Ord("i"), Ord("l"), Ord("o")}

\* the first loop of _increment_password: every letter after an ambiguous
\* one becomes z
ForceTurnOver(pw) ==
  [i \in 1..8 |->
     IF \E j \in 1..(i - 1) : pw[j] \in ambiguous_chars
     THEN Ord("z") ELSE pw[i]]

\* the second loop: from the right, z wraps to a, the first other letter is
\* increased and the loop breaks
IncrementFromRight(pw) ==
  LET others == {i \in 1..8 : pw[i] # Ord("z")}
      k == IF others = {} THEN 0 ELSE CHOOSE i \in others : \A j \in others : j <= i
  IN  [i \in 1..8 |->
         IF i > k THEN Ord("a") ELSE IF i = k THEN pw[i] + 1 ELSE pw[i]]

IncrementPassword(pw) == IncrementFromRight(ForceTurnOver(pw))

Day11Frame ==
  UNCHANGED << day9Vars, day23Vars, day20Vars, day6Vars, day7Vars, logVars, factoryVars, instVars,
               frameVars, searchVars, testVars, procVars, histVars >>

\* lines 150-151
GetNextPassword ==
  /\ pc = "day11_get_next_password"
  /\ password' = IncrementPassword(Ords(puzzle_input))
  /\ pc' = "day11_while"
  /\ UNCHANGED new_password
  /\ Day11Frame

\* lines 152-153
IncrementAgain ==
  /\ pc = "day11_while"
  /\ ~IsValidNewPassword(password)
  /\ password' = IncrementPassword(password)
  /\ UNCHANGED << new_password, pc >>
  /\ Day11Frame

\* line 154
ReturnNextPassword ==
  /\ pc = "day11_while"
  /\ IsValidNewPassword(password)
  /\ new_password' = Chrs(password)
  /\ pc' = "day11_returned"
  /\ UNCHANGED password
  /\ Day11Frame

\* old passwords: two fixtures of run_test_cases, and every password that
\* starts with aabbcg and goes on with one of TailStarts and any letter
TailStarts == {"g", "h"}
Day11Inputs ==
  {<< "a", "a", "b", "b", "c", "g", x, y >> :
     x \in TailStarts, y \in {Alphabet[i] : i \in 1..Len(Alphabet)}}
  \cup {<< "h", "i", "j", "k", "l", "m", "m", "n" >>,
        << "g", "h", "i", "j", "k", "l", "m", "n" >>}

InitDay11 ==
  /\ day = 11
  /\ solver_module = "day_11"
  /\ file_name = None
  /\ file = None
  /\ puzzle_input \in Day11Inputs
  /\ boss_raw_damage = None
  /\ NothingRun
  /\ tests_left = 0
  /\ hard_mode = FALSE
  /\ first_boss = None
  /\ moves = << >>
  /\ min_mana_used = MaxSize
  /\ pc = "day11_get_next_password"

NextDay11 ==
  \/ GetNextPassword
  \/ IncrementAgain
  \/ ReturnNextPassword

SpecDay11 == InitDay11 /\ [][NextDay11]_vars

(***************************************************************************)
(* Day 20 (day_20.py): _solve_puzzle_parts, one iteration of               *)
(* `while alt_num is None` per step.  A local that is None is << >>, one   *)
(* that holds n is << n >>.                                                *)
(***************************************************************************)
\* int(math.sqrt(n))
IntSqrt(n) == CHOOSE r \in 0..n : r * r <= n /\ (r + 1) * (r + 1) > n

\* lines 97-104: the divisors up to the square root, then their cofactors
Divisors(house) ==
  LET low == SelectSeq([i \in 1..IntSqrt(house) |-> i],
                       LAMBDA i : house % i = 0)
      paired == SelectSeq(low, LAMBDA divisor : house # divisor * divisor)
  IN  low \o [i \in 1..Len(paired) |-> house \div paired[i]]

\* line 106
NumHousePresents(house) == 10 * SumSeq(Divisors(house))

\* lines 108-111: `house_num / divisor <= 50`
AltNumPresents(house) ==
  11 * SumSeq(SelectSeq(Divisors(house),
                        LAMBDA divisor : house <= 50 * divisor))

Day20Frame ==
  UNCHANGED << day9Vars, day23Vars, day11Vars, day6Vars, day7Vars, logVars, factoryVars, instVars,
               alt_input, mana_hard_mode, output, searchVars, testVars,
               procVars, histVars >>

\* lines 90-93
Day20Solve ==
  /\ pc = "day20_solve"
  /\ min_presents' = Strip(puzzle_input)[1].val
  /\ min_house_num' = << >>
  /\ alt_num' = << >>
  /\ house_num' = 0
  /\ pc' = "day20_while"
  /\ UNCHANGED answers
  /\ Day20Frame

\* lines 94-115
Day20Iteration ==
  /\ pc = "day20_while"
  /\ alt_num = << >>
  /\ house_num' = house_num + 2
  /\ min_house_num' =
       IF min_house_num = << >> /\ NumHousePresents(house_num') >= min_presents
       THEN << house_num' >> ELSE min_house_num
  /\ alt_num' =
       IF AltNumPresents(house_num') >= min_presents
       THEN << house_num' >> ELSE alt_num
  /\ UNCHANGED << min_presents, answers, pc >>
  /\ Day20Frame

\* line 116
Day20Return ==
  /\ pc = "day20_while"
  /\ alt_num # << >>
  /\ answers' = << min_house_num, alt_num >>
  /\ pc' = "day20_done"
  /\ UNCHANGED << min_presents, house_num, min_house_num, alt_num >>
  /\ Day20Frame

\* the thresholds 1..MaxPresents, with or without a newline after the digits
MaxPresents == 150
Day20Inputs ==
  {<< Num(t) >> : t \in 1..MaxPresents}
  \cup {<< Num(t), Ws >> : t \in 1..MaxPresents}

InitDay20 ==
  /\ day = 20
  /\ solver_module = "day_20"
  /\ file_name = None
  /\ file = None
  /\ puzzle_input \in Day20Inputs
  /\ boss_raw_damage = None
  /\ NothingRun
  /\ tests_left = 0
  /\ hard_mode = FALSE
  /\ first_boss = None
  /\ moves = << >>
  /\ min_mana_used = MaxSize
  /\ pc = "day20_solve"

NextDay20 ==
  \/ Day20Solve
  \/ Day20Iteration
  \/ Day20Return

SpecDay20 == InitDay20 /\ [][NextDay20]_vars

\* The deliveries of the puzzle text (module docstring of day_20.py): elf e
\* visits the houses e, 2e, 3e, ... and leaves 10 e presents at each; in
\* part two it stops after 50 houses and leaves 11 e.
RECURSIVE SumSet(_)
SumSet(S) ==
  IF S = {} THEN 0 ELSE LET x == CHOOSE y \in S : TRUE IN x + SumSet(S \ {x})

ElvesAt(house) == {e \in 1..house : house % e = 0}
PresentsAt(house) == 10 * SumSet(ElvesAt(house))
PresentsAtPartTwo(house) ==
  11 * SumSet({e \in ElvesAt(house) : house \div e <= 50})

LowestHouse(threshold) ==
  CHOOSE house \in 1..threshold :
    /\ PresentsAt(house) >= threshold
    /\ \A lower \in 1..(house - 1) : PresentsAt(lower) < threshold

LowestHousePartTwo(threshold) ==
  CHOOSE house \in 1..threshold :
    /\ PresentsAtPartTwo(house) >= threshold
    /\ \A lower \in 1..(house - 1) : PresentsAtPartTwo(lower) < threshold

(***************************************************************************)
(* Day 6 (day_06.py): _solve_puzzle_parts builds the two grids and applies *)
(* the lines of the input to both, one line per step.  The lines are drawn *)
(* one at a time, so an input of any length is followed; the loop ends     *)
(* where the input does.                                                   *)
(***************************************************************************)
GridWidth == 2
GridHeight == 1

\* a light is one byte of a bytearray
ByteMax == 255

Point(x, y) == [x |-> x, y |-> y]

\* LightGrid.reset_grid: every row a bytearray of zeros
ResetGrid == [row \in 0..(GridHeight - 1) |-> [column \in 0..(GridWidth - 1) |-> 0]]

\* count_lights
RECURSIVE SumBytes(_, _)
SumBytes(row, n) == IF n = 0 THEN 0 ELSE row[n - 1] + SumBytes(row, n - 1)

RECURSIVE SumRows(_, _)
SumRows(grid, n) ==
  IF n = 0 THEN 0 ELSE SumBytes(grid[n - 1], GridWidth) + SumRows(grid, n - 1)

CountLights(grid) == SumRows(grid, GridHeight)

\* the lights of `for row in range(start.y, end.y + 1): for column in
\* range(start.x, end.x + 1)`, in the order of the loops
LightsOf(start, end) ==
  LET columns == end.x + 1 - start.x
      rows == end.y + 1 - start.y
  IN  IF columns < 1 \/ rows < 1 THEN << >>
      ELSE [i \in 1..(rows * columns) |->
              Point(start.x + ((i - 1) % columns), start.y + ((i - 1) \div columns))]

Covers(start, end, light) ==
  /\ start.x <= light.x /\ light.x <= end.x
  /\ start.y <= light.y /\ light.y <= end.y

\* SimpleLightGrid.set_light_state and toggle_light_state
SimpleSetLightState(grid, start, end, light_state) ==
  [row \in DOMAIN grid |-> [column \in DOMAIN grid[row] |->
     IF Covers(start, end, Point(column, row))
     THEN (IF light_state = "on" THEN 1 ELSE 0)
     ELSE grid[row][column]]]

SimpleToggleLightState(grid, start, end) ==
  [row \in DOMAIN grid |-> [column \in DOMAIN grid[row] |->
     IF Covers(start, end, Point(column, row))
     THEN 1 - grid[row][column]
     ELSE grid[row][column]]]

\* ComplexLightGrid.toggle_light_state: the lights are raised one after the
\* other; storing a value above ByteMax in a bytearray raises ValueError
\* and leaves the lights before it raised
RECURSIVE ComplexToggleLights(_, _, _)
ComplexToggleLights(grid, lights, increment) ==
  IF lights = << >> THEN [grid |-> grid, raised |-> FALSE]
  ELSE LET light == Head(lights)
           value == grid[light.y][light.x] + increment
       IN  IF value > ByteMax THEN [grid |-> grid, raised |-> TRUE]
           ELSE ComplexToggleLights([grid EXCEPT ![light.y][light.x] = value],
                                    Tail(lights), increment)

ComplexToggleLightState(grid, start, end, increment) ==
  ComplexToggleLights(grid, LightsOf(start, end), increment)

\* ComplexLightGrid.set_light_state
ComplexSetLightState(grid, start, end, light_state) ==
  IF light_state = "on" THEN ComplexToggleLightState(grid, start, end, 1)
  ELSE [grid |->
          [row \in DOMAIN grid |-> [column \in DOMAIN grid[row] |->
             IF Covers(start, end, Point(column, row)) /\ grid[row][column] # 0
             THEN grid[row][column] - 1
             ELSE grid[row][column]]],
        raised |-> FALSE]

\* a line of the input: 'toggle x1,y1 through x2,y2' or
\* 'turn on|off x1,y1 through x2,y2'
LightLine(words, x1, y1, x2, y2) ==
  << Word(words), Num(x1), Word(","), Num(y1), Word(" through "), Num(x2),
     Word(","), Num(y2) >>

\* instruction.startswith('toggle'), and the state group of the turn pattern
IsToggle(line) == line[1].val = "toggle "
TurnState(line) == IF line[1].val = "turn on " THEN "on" ELSE "off"

\* Solver._parse_points
ParsePoints(line) ==
  [start |-> Point(line[2].val, line[4].val),
   end |-> Point(line[6].val, line[8].val)]

Day6Frame ==
  UNCHANGED << day9Vars, day23Vars, day11Vars, day20Vars, day7Vars, logVars,
               factoryVars, instVars, alt_input, mana_hard_mode, output,
               searchVars, testVars, procVars, histVars >>

\* lines 251-252
Day6Solve ==
  /\ pc = "day6_solve"
  /\ simple_grid' = ResetGrid
  /\ complex_grid' = ResetGrid
  /\ pc' = "day6_for"
  /\ UNCHANGED << instruction, answers >>
  /\ Day6Frame

Day6Regions ==
  {r \in (0..(GridWidth - 1)) \X (0..(GridHeight - 1))
           \X (0..(GridWidth - 1)) \X (0..(GridHeight - 1)) :
     r[1] <= r[3] /\ r[2] <= r[4]}

Day6Lines ==
  {LightLine(w, r[1], r[2], r[3], r[4]) :
     w \in {"turn on ", "turn off ", "toggle "}, r \in Day6Regions}

\* the light at 0,0 is followed up to what its byte holds; the brightness of
\* the other lights is followed up to MaxOtherBrightness
MaxOtherBrightness == 3
WithinBrightness(grid) ==
  \A row \in DOMAIN grid : \A column \in DOMAIN grid[row] :
    (row = 0 /\ column = 0) \/ grid[row][column] <= MaxOtherBrightness

\* lines 253-261: one line of the input is applied to both grids, the
\* simple grid first
Day6Instruction ==
  /\ pc = "day6_for"
  /\ \E line \in Day6Lines :
       LET points == ParsePoints(line)
           changed ==
             IF IsToggle(line)
             THEN ComplexToggleLightState(complex_grid, points.start,
                                          points.end, 2)
             ELSE ComplexSetLightState(complex_grid, points.start, points.end,
                                       TurnState(line))
       IN  /\ instruction' = << line >>
           /\ simple_grid' =
                IF IsToggle(line)
                THEN SimpleToggleLightState(simple_grid, points.start,
                                            points.end)
                ELSE SimpleSetLightState(simple_grid, points.start, points.end,
                                         TurnState(line))
           /\ complex_grid' = changed.grid
           /\ WithinBrightness(changed.grid)
           /\ pc' = IF changed.raised THEN "ValueError" ELSE "day6_for"
  /\ UNCHANGED answers
  /\ Day6Frame

\* line 262
Day6Return ==
  /\ pc = "day6_for"
  /\ answers' = << CountLights(simple_grid), CountLights(complex_grid) >>
  /\ pc' = "day6_done"
  /\ UNCHANGED day6Vars
  /\ Day6Frame

InitDay6 ==
  /\ day = 6
  /\ solver_module = "day_06"
  /\ file_name = None
  /\ file = None
  /\ puzzle_input = NoneText
  /\ boss_raw_damage = None
  /\ NothingRun
  /\ tests_left = 0
  /\ hard_mode = FALSE
  /\ first_boss = None
  /\ moves = << >>
  /\ min_mana_used = MaxSize
  /\ pc = "day6_solve"

NextDay6 ==
  \/ Day6Solve
  \/ Day6Instruction
  \/ Day6Return

SpecDay6 == InitDay6 /\ [][NextDay6]_vars

(***************************************************************************)
(* Day 7 (day_07.py): _parse_instructions builds the wire tracker from the *)
(* lines of the input, then _propagate_signals pushes the signals through  *)
(* it, one circuit of `for wire_id in sorted(signaling_circuits)` per      *)
(* step.  A signal is None (<< >>) or a number (<< n >>).                  *)
(***************************************************************************)
NoSignal == << >>
NoCircuit == << >>

\* an input of a circuit: the circuit of a wire, by its id, or the untracked
\* circuit _get_source_circuit makes of a number
InputOf(token) ==
  IF token.kind = "num"
  THEN [id |-> << >>, signal |-> << token.val >>]
  ELSE [id |-> << token.val >>, signal |-> NoSignal]

\* the circuit _get_source_circuit makes of a new wire id
NewCircuit(wire_id) ==
  [id |-> wire_id, source_type |-> None, input_a |-> NoCircuit,
   input_b |-> NoCircuit, outputs |-> {}, signal |-> NoSignal]

\* _get_source_circuit: a wire id that is not tracked yet is added
GetSourceCircuit(tracker, token) ==
  IF token.kind = "word" /\ token.val \notin DOMAIN tracker
  THEN tracker @@ (token.val :> NewCircuit(token.val))
  ELSE tracker

\* circuit[label]['signal'] of a tracked circuit
SignalOf(tracker, input) ==
  IF input = NoCircuit THEN NoSignal
  ELSE IF input.id # << >> THEN tracker[input.id[1]].signal
  ELSE input.signal

\* _update_input_circuit
UpdateInputCircuit(tracker, wire_id, token, label) ==
  LET known == GetSourceCircuit(tracker, token)
      linked == [known EXCEPT ![wire_id][label] = InputOf(token)]
  IN  IF token.kind = "word"
      THEN [linked EXCEPT ![token.val].outputs = @ \cup {wire_id}]
      ELSE linked

\* _input_handler; an input_b of None is NoCircuit
InputHandler(tracker, output_wire, handler_type, input_a, input_b) ==
  LET known == GetSourceCircuit(tracker, output_wire)
      typed == [known EXCEPT ![output_wire.val].source_type = handler_type]
      with_a == UpdateInputCircuit(typed, output_wire.val, input_a, "input_a")
  IN  IF input_b = NoCircuit THEN with_a
      ELSE UpdateInputCircuit(with_a, output_wire.val, input_b[1], "input_b")

\* the pattern of self._instructions that matches the line
CircuitType(line) ==
  CASE Len(line) = 3 -> "SIGNAL_WIRE"
    [] Len(line) = 4 -> "NOT_GATE"
    [] Len(line) = 5 /\ line[2].val = "AND" -> "AND_GATE"
    [] Len(line) = 5 /\ line[2].val = "OR" -> "OR_GATE"
    [] Len(line) = 5 /\ line[2].val = "LSHIFT" -> "LEFT_SHIFT"
    [] Len(line) = 5 /\ line[2].val = "RSHIFT" -> "RIGHT_SHIFT"

\* _handle_instruction
HandleInstruction(tracker, line) ==
  LET circuit_type == CircuitType(line)
  IN  IF circuit_type = "SIGNAL_WIRE"
      THEN LET handled == InputHandler(tracker, line[3], circuit_type, line[1],
                                       NoCircuit)
               wire_signal == SignalOf(handled, InputOf(line[1]))
           IN  IF wire_signal # NoSignal
               THEN [handled EXCEPT ![line[3].val].signal = wire_signal]
               ELSE handled
      ELSE IF circuit_type = "NOT_GATE"
      THEN InputHandler(tracker, line[4], circuit_type, line[2], NoCircuit)
      ELSE InputHandler(tracker, line[5], circuit_type, line[1], << line[3] >>)

\* _parse_instructions
RECURSIVE ParseInstructions(_, _)
ParseInstructions(tracker, lines) ==
  IF lines = << >> THEN tracker
  ELSE ParseInstructions(HandleInstruction(tracker, Head(lines)), Tail(lines))

\* the bitwise operators of Python on numbers that are not negative
RECURSIVE BitAnd(_, _)
BitAnd(a, b) ==
  IF a = 0 \/ b = 0 THEN 0
  ELSE (a % 2) * (b % 2) + 2 * BitAnd(a \div 2, b \div 2)

RECURSIVE BitOr(_, _)
BitOr(a, b) ==
  IF a = 0 THEN b
  ELSE IF b = 0 THEN a
  ELSE (IF a % 2 = 1 \/ b % 2 = 1 THEN 1 ELSE 0) + 2 * BitOr(a \div 2, b \div 2)

RECURSIVE Pow2(_)
Pow2(n) == IF n = 0 THEN 1 ELSE 2 * Pow2(n - 1)

bit_mask == 65535

\* _get_circuit_signal: the signal, or None, or the TypeError of an
\* operator applied to None
Signal(value) == [raised |-> FALSE, signal |-> << value % (bit_mask + 1) >>]
TypeError == [raised |-> TRUE, signal |-> NoSignal]

GetCircuitSignal(circuit_type, input_a, input_b) ==
  IF circuit_type = "SIGNAL_WIRE"
  THEN (IF input_a = NoSignal THEN TypeError ELSE Signal(input_a[1]))
  ELSE IF circuit_type = "NOT_GATE"
  THEN (IF input_a = NoSignal THEN TypeError
        ELSE Signal(bit_mask - (input_a[1] % (bit_mask + 1))))
  ELSE IF input_b # NoSignal
  THEN (IF input_a = NoSignal THEN TypeError
        ELSE CASE circuit_type = "AND_GATE" ->
                    Signal(BitAnd(input_a[1], input_b[1]))
               [] circuit_type = "OR_GATE" ->
                    Signal(BitOr(input_a[1], input_b[1]))
               [] circuit_type = "LEFT_SHIFT" ->
                    Signal(input_a[1] * Pow2(input_b[1]))
               [] circuit_type = "RIGHT_SHIFT" ->
                    Signal(input_a[1] \div Pow2(input_b[1])))
  ELSE [raised |-> FALSE, signal |-> NoSignal]

\* sorted(): the wire ids of the model are in alphabetical order here
WireIds == << "a", "p", "x", "y" >>
Sorted(wires) == SelectSeq(WireIds, LAMBDA w : w \in wires)

Day7Frame ==
  UNCHANGED << day9Vars, day23Vars, day11Vars, day20Vars, day6Vars, logVars,
               factoryVars, instVars, alt_input, mana_hard_mode, output,
               answers, searchVars, testVars, procVars, histVars >>

\* _parse_instructions, lines 276-279
Day7Parse ==
  /\ pc = "day7_parse"
  /\ wire_tracker' = ParseInstructions(<< >>, puzzle_input)
  /\ pc' = "day7_propagate"
  /\ UNCHANGED << signaling_circuits, nonsignaling_circuits, pass_wires,
                  evaluated >>
  /\ Day7Frame

\* _get_circuit_sets, called at line 245
Day7GetCircuitSets ==
  /\ pc = "day7_propagate"
  /\ signaling_circuits' =
       {w \in DOMAIN wire_tracker : wire_tracker[w].signal # NoSignal}
  /\ nonsignaling_circuits' =
       {w \in DOMAIN wire_tracker : wire_tracker[w].signal = NoSignal}
  /\ pc' = "day7_while"
  /\ UNCHANGED << wire_tracker, pass_wires, evaluated >>
  /\ Day7Frame

\* lines 247-248: the for loop runs over a sorted copy of the set
Day7StartPass ==
  /\ pc = "day7_while"
  /\ signaling_circuits # {}
  /\ pass_wires' = Sorted(signaling_circuits)
  /\ pc' = "day7_for"
  /\ UNCHANGED << wire_tracker, signaling_circuits, nonsignaling_circuits,
                  evaluated >>
  /\ Day7Frame

\* lines 249-267: one circuit of the pass
Day7Evaluate ==
  /\ pc = "day7_for"
  /\ pass_wires # << >>
  /\ LET wire_id == Head(pass_wires)
         circuit == wire_tracker[wire_id]
         input_a == SignalOf(wire_tracker, circuit.input_a)
         input_b == SignalOf(wire_tracker, circuit.input_b)
         new_signal == GetCircuitSignal(circuit.source_type, input_a, input_b)
     IN  /\ evaluated' = << [wire_id |-> wire_id,
                             circuit_type |-> circuit.source_type,
                             input_a |-> input_a, input_b |-> input_b,
                             new_signal |-> new_signal] >>
         /\ IF new_signal.raised
            THEN /\ pc' = "TypeError"
                 /\ UNCHANGED << wire_tracker, signaling_circuits,
                                 nonsignaling_circuits, pass_wires >>
            ELSE /\ pc' = "day7_for"
                 /\ pass_wires' = Tail(pass_wires)
                 /\ IF new_signal.signal # NoSignal
                    THEN /\ wire_tracker' =
                              [wire_tracker EXCEPT
                                 ![wire_id].signal = new_signal.signal]
                         /\ signaling_circuits' =
                              (signaling_circuits \cup circuit.outputs)
                                \ {wire_id}
                         /\ UNCHANGED nonsignaling_circuits
                    ELSE /\ nonsignaling_circuits' =
                              nonsignaling_circuits \cup {wire_id}
                         /\ signaling_circuits' = signaling_circuits \ {wire_id}
                         /\ UNCHANGED wire_tracker
  /\ Day7Frame

\* line 268
Day7EndPass ==
  /\ pc = "day7_for"
  /\ pass_wires = << >>
  /\ nonsignaling_circuits' = nonsignaling_circuits \ signaling_circuits
  /\ pc' = "day7_while"
  /\ UNCHANGED << wire_tracker, signaling_circuits, pass_wires, evaluated >>
  /\ Day7Frame

\* line 247: no circuit is left to signal
Day7Propagated ==
  /\ pc = "day7_while"
  /\ signaling_circuits = {}
  /\ pc' = "day7_propagated"
  /\ UNCHANGED day7Vars
  /\ Day7Frame

\* the circuits of up to MaxCircuitLines lines of a booklet in which every
\* wire has one source, in any order
MaxCircuitLines == 4
GateLine(input_a, gate, input_b, output_wire) ==
  << input_a, Word(gate), input_b, Word("->"), Word(output_wire) >>
Day7Lines ==
  { << Num(5), Word("->"), Word("y") >>,
    << Num(6), Word("->"), Word("x") >>,
    << Word("y"), Word("->"), Word("p") >>,
    << Word("p"), Word("->"), Word("x") >>,
    << Word("NOT"), Word("y"), Word("->"), Word("x") >>,
    GateLine(Word("x"), "AND", Word("y"), "a"),
    GateLine(Word("y"), "AND", Word("x"), "a"),
    GateLine(Word("x"), "OR", Word("y"), "a"),
    GateLine(Word("y"), "OR", Word("x"), "a"),
    GateLine(Word("y"), "LSHIFT", Num(2), "a"),
    GateLine(Word("y"), "RSHIFT", Num(1), "a") }

OutputOf(line) == line[Len(line)].val

Day7Inputs ==
  {lines \in UNION {[1..n -> Day7Lines] : n \in 1..MaxCircuitLines} :
     \A i, j \in 1..Len(lines) :
       i # j => OutputOf(lines[i]) # OutputOf(lines[j])}

InitDay7 ==
  /\ day = 7
  /\ solver_module = "day_07"
  /\ file_name = None
  /\ file = None
  /\ puzzle_input \in Day7Inputs
  /\ boss_raw_damage = None
  /\ NothingRun
  /\ tests_left = 0
  /\ hard_mode = FALSE
  /\ first_boss = None
  /\ moves = << >>
  /\ min_mana_used = MaxSize
  /\ pc = "day7_parse"

NextDay7 ==
  \/ Day7Parse
  \/ Day7GetCircuitSets
  \/ Day7StartPass
  \/ Day7Evaluate
  \/ Day7EndPass
  \/ Day7Propagated

SpecDay7 == InitDay7 /\ [][NextDay7]_vars

(***************************************************************************)
(* C1: when _get_min_mana returns, the value returned is the least total   *)
(* mana of a winning play of the game: some winning play costs exactly     *)
(* that much and none costs less; the sentinel is returned only when the   *)
(* boss cannot be beaten at all.                                           *)
(***************************************************************************)
MinManaIsGlobalMinimum ==
  pc = "returned" =>
    IF min_mana_used = MaxSize
    THEN ~Winnable(first_boss, hard_mode, MaxSize)
    ELSE /\ Winnable(first_boss, hard_mode, min_mana_used)
         /\ ~Winnable(first_boss, hard_mode, min_mana_used - 1)

\* C1 witness: a hard mode search has returned a win that no single spell
\* gives.
MinManaReturned ==
  /\ pc = "returned"
  /\ hard_mode
  /\ min_mana_used = 126

(***************************************************************************)
(* C2: run_test_cases of Day 22 solves its four fixtures in order, and the *)
(* answers returned are (53, 53), (106, 126), (787, 787) and (787, 900),   *)
(* the normal mode answer first; all four are run.                         *)
(***************************************************************************)
FixtureBosses == << << 1, 100 >>, << 5, 49 >>, << 50, 1 >>, << 50, 8 >> >>
FixtureAnswers ==
  << << 53, 53 >>, << 106, 126 >>, << 787, 787 >>, << 787, 900 >> >>

FixturesSolved ==
  /\ Len(calls) <= Len(FixtureAnswers)
  /\ \A i \in 1..Len(calls) :
       /\ FindNumbers(calls[i].input) = FixtureBosses[i]
       /\ calls[i].answers = FixtureAnswers[i]
  /\ pc = "done" => Len(calls) = Len(FixtureAnswers)

\* C2 witness: the first two fixtures have been solved in order, and the boss
\* of 5 hit points and 49 damage gave 106 in normal mode and 126 in hard mode.
SecondFixtureSolved ==
  /\ Len(calls) = 2
  /\ FindNumbers(calls[1].input) = FixtureBosses[1]
  /\ FindNumbers(calls[2].input) = FixtureBosses[2]
  /\ calls[2].answers = << 106, 126 >>

(***************************************************************************)
(* C3: the hard mode answer of a solve is never below its normal mode      *)
(* answer.                                                                 *)
(***************************************************************************)
HardModeNotCheaper ==
  \A i \in 1..Len(calls) : calls[i].answers[2] >= calls[i].answers[1]

\* C3 witness: a solve whose hard mode answer is above its normal mode one.
HardModeDearer ==
  \E i \in 1..Len(calls) : calls[i].answers[2] > calls[i].answers[1]

(***************************************************************************)
(* C4: of two solves for bosses of the same damage, the one for the boss   *)
(* with no more hit points gives no larger answer, in both modes.          *)
(***************************************************************************)
CallBoss(i) == FindNumbers(calls[i].input)

MonotoneInBossHitPoints ==
  \A i, j \in 1..Len(calls) :
    (CallBoss(i)[2] = CallBoss(j)[2] /\ CallBoss(i)[1] <= CallBoss(j)[1])
      => /\ calls[i].answers[1] <= calls[j].answers[1]
         /\ calls[i].answers[2] <= calls[j].answers[2]

\* C4 witness: the second solve is for a boss of the same damage and fewer
\* hit points, and its answers are smaller.
MoreHitPointsCostMore ==
  /\ Len(calls) = 2
  /\ CallBoss(1)[2] = CallBoss(2)[2]
  /\ CallBoss(2)[1] < CallBoss(1)[1]
  /\ calls[2].answers[1] < calls[1].answers[1]
  /\ calls[2].answers[2] < calls[1].answers[2]

(***************************************************************************)
(* C5: two get_puzzle_solution calls on the same solver with the same      *)
(* input return the same answers.                                          *)
(***************************************************************************)
SameInputSameAnswers ==
  \A i, j \in 1..Len(calls) :
    calls[i].input = calls[j].input => calls[i].answers = calls[j].answers

\* C5 witness: the same input has been solved twice, and it is one whose
\* two answers differ.
SolvedTwice ==
  /\ Len(calls) = 2
  /\ calls[1].input = calls[2].input
  /\ calls[2].answers = << 106, 126 >>

(***************************************************************************)
(* C6: a Day 9 solver that has solved y before gives for x what a fresh    *)
(* Day 9 solver gives for x.                                               *)
(***************************************************************************)
Day9SameAsFresh ==
  pc = "day9_done" => d9_solutions["used"][2] = d9_solutions["fresh"][1]

(***************************************************************************)
(* C7: a get_puzzle_solution call sets the input once, from the file when  *)
(* alt_input is None and from alt_input otherwise, then solves, then       *)
(* formats; the steps of a call only ever grow by one, and a new call      *)
(* starts with the load.                                                   *)
(***************************************************************************)
CallSteps(alt) ==
  IF alt = NoneText THEN << "load_file", "solve", "format" >>
  ELSE << "alt_input", "solve", "format" >>

IsPrefix(p, q) == Len(p) <= Len(q) /\ SubSeq(q, 1, Len(p)) = p

LoadSolveFormatState ==
  /\ \/ IsPrefix(trace, CallSteps(alt_input))
     \/ alt_input = NoneText /\ trace = << "load_error" >>
  /\ pc = "solve" =>
       /\ Len(trace) = 1
       /\ puzzle_input = IF alt_input = NoneText THEN RStrip(file.content)
                         ELSE alt_input
  /\ pc \in {"search", "returned", "format"} => Len(trace) = 2
  /\ pc = "got_solution" => Len(trace) = 3
  /\ \A i \in 1..Len(calls) :
       calls[i].trace = CallSteps(IF calls[i].test_case = << >> THEN NoneText
                                  ELSE calls[i].test_case[1].input)

LoadSolveFormatStep ==
  /\ trace' # trace =>
       \/ trace' = << >> /\ pc' = "get_puzzle_solution"
       \/ Len(trace') = Len(trace) + 1 /\ IsPrefix(trace, trace')
  /\ puzzle_input' # puzzle_input => Len(trace) = 0 /\ Len(trace') = 1
  /\ output' # output => trace' = Append(trace, "format")

LoadSolveFormat == [] LoadSolveFormatState /\ [][LoadSolveFormatStep]_vars

\* C7 witness: a second call on the same solver has set its input and is
\* about to solve, and a first call has gone through its three steps.
SecondCallLoaded ==
  /\ Len(calls) = 1
  /\ pc = "solve"
  /\ trace = << "alt_input" >>

(***************************************************************************)
(* C8: when the file cannot be read the process exits with a non-zero      *)
(* status and a diagnostic of two lines, the first of which names the      *)
(* file; nothing is solved and no answer is produced.                      *)
(***************************************************************************)
FailedLoadExits ==
  /\ (trace # << >> /\ trace[1] = "load_error") => pc = "exited"
  /\ pc = "exited" =>
       /\ ~file.readable
       /\ exit_status = 1
       /\ Len(stderr) = 2
       /\ \E k \in 1..Len(stderr[1]) : stderr[1][k] = file_name
       /\ trace = << "load_error" >>
       /\ answers = NoAnswers
       /\ output = NoOutput
       /\ stdout = << >>
       /\ calls = << >>

\* C8 witness: the process has exited on a file that cannot be read.
ExitedOnUnreadableFile ==
  /\ pc = "exited"
  /\ file_name = "input.txt"
  /\ ~file.readable

(***************************************************************************)
(* C9: the fixtures are reported one by one, in the order they are run; a  *)
(* fixture is reported as passed exactly when its formatted answers equal  *)
(* its formatted expected values, and a failed fixture does not keep the   *)
(* later ones from being run.                                              *)
(***************************************************************************)
FormattedAnswers(call) ==
  SolvedOutput(Str(call.answers[1]), Str(call.answers[2]))
FormattedExpected(call) ==
  SolvedOutput(Str(call.test_case[1].expected1),
               Str(call.test_case[1].expected2))

FixturesReported ==
  /\ (pc = "run_test_cases" \/ (pc = "done" /\ calls # << >>
                                  /\ calls[1].test_case # << >>)) =>
       /\ Len(stdout) = Len(calls)
       /\ Len(calls) + tests_left = MaxTestCases
       /\ \A i \in 1..Len(calls) :
            /\ stdout[i].input = calls[i].test_case[1].input
            /\ stdout[i].verdict \in {"passed", "failed"}
            /\ stdout[i].verdict = "passed"
                 <=> FormattedExpected(calls[i]) = FormattedAnswers(calls[i])
  /\ (pc = "done" /\ stdout # << >> /\ calls[1].test_case # << >>) =>
       Len(stdout) = MaxTestCases

\* C9 witness: a failed fixture was followed by one that passed.
FailedThenPassed ==
  /\ pc = "done"
  /\ Len(stdout) >= 2
  /\ calls[1].test_case # << >>
  /\ stdout[1].verdict = "failed"
  /\ stdout[2].verdict = "passed"

(***************************************************************************)
(* C10: get_solver gives the solver of day N for N in 1..25 and raises     *)
(* ValueError for every other day; no day below 1 picks a solver from the  *)
(* end of the table.                                                       *)
(***************************************************************************)
SolverOfDay ==
  pc # "get_solver" =>
    IF day \in 1..25
    THEN /\ solver_module = aoc_solvers[day]
         /\ pc # "ValueError"
    ELSE /\ solver_module = "ValueError"
         /\ pc = "ValueError"

\* C10 witness: day 0 was asked for and ValueError was raised.
DayZeroRefused ==
  /\ day = 0
  /\ pc = "ValueError"

(***************************************************************************)
(* C11: the Day 23 solver returns register b at exit of the program run    *)
(* from a = 0, b = 0 and of the same program run from a = 1, b = 0, each   *)
(* as if it were the only run; a program that never names register b      *)
(* gives 0 and 0.                                                          *)
(***************************************************************************)
OnlyTouchesA(lines) == \A i \in 1..Len(lines) : lines[i].register # "b"

TwoFreshRuns ==
  pc = "day23_done" =>
    /\ answers = RegisterBAtExit(puzzle_input, 0, 0, 1, Day23Fuel)
                   \o RegisterBAtExit(puzzle_input, 1, 0, 1, Day23Fuel)
    /\ program = Day23ParseInput(puzzle_input)
    /\ OnlyTouchesA(puzzle_input) => answers = << 0, 0 >>

\* a program whose two runs end with different values in register b
TwoRunsDiffer ==
  /\ pc = "day23_done"
  /\ answers[1] # answers[2]
  /\ answers[2] = RegisterBAtExit(puzzle_input, 1, 0, 1, Day23Fuel)[1]

(***************************************************************************)
(* C12: the password _get_next_password returns has none of the letters    *)
(* i, o and l, has three letters in a row that each follow the one before  *)
(* in the alphabet, and has pairs of at least two different letters.       *)
(***************************************************************************)
Letters(text) == {text[i] : i \in 1..Len(text)}

MeetsPolicy(text) ==
  /\ Letters(text) \cap {"i", "o", "l"} = {}
  /\ \E i \in 1..(Len(text) - 2) :
       /\ Ord(text[i + 1]) = Ord(text[i]) + 1
       /\ Ord(text[i + 2]) = Ord(text[i]) + 2
  /\ \E i, j \in 1..(Len(text) - 1) :
       /\ text[i] = text[i + 1]
       /\ text[j] = text[j + 1]
       /\ text[i] # text[j]

NextPasswordMeetsPolicy ==
  pc = "day11_returned" => MeetsPolicy(new_password)

(***************************************************************************)
(* C13: for a threshold T >= 1 the Day 20 solver returns the lowest house  *)
(* that gets at least T presents under the rules of part one, and the      *)
(* lowest house that does so under the rules of part two; both answers are *)
(* house numbers.                                                          *)
(***************************************************************************)
LowestHousesReturned ==
  pc = "day20_done" =>
    /\ answers[1] = << LowestHouse(min_presents) >>
    /\ answers[2] = << LowestHousePartTwo(min_presents) >>

(***************************************************************************)
(* C14: whenever a move is popped from the frontier, no move that stays in *)
(* the frontier has used strictly less mana than the popped one.           *)
(***************************************************************************)
LastIteration == iteration[1]

PoppedInManaOrder ==
  iteration # NoIteration =>
    \A i \in 1..Len(LastIteration.rest) :
      LastIteration.rest[i].mana_used >= LastIteration.move.mana_used

(***************************************************************************)
(* C15: the first win a search records is the value the search returns,    *)
(* and no later win of the same search lowers min_mana_used.               *)
(***************************************************************************)
FirstWinIsOptimal ==
  /\ \A i \in 2..Len(wins) : wins[i] >= wins[1]
  /\ pc = "returned" /\ wins # << >> => min_mana_used = wins[1]

(***************************************************************************)
(* C16: a popped move whose mana_used is equal to or greater than the best *)
(* win so far is not expanded: no effects are applied to it and no child   *)
(* of it is pushed; nor is a popped move whose player has no hit points    *)
(* left.                                                                   *)
(***************************************************************************)
NotExpanded(it) == it.applied = << >> /\ moves = it.rest

MeetsBestNotExpanded ==
  iteration # NoIteration /\ pc = "search" =>
    /\ LastIteration.move.mana_used >= LastIteration.best
         => NotExpanded(LastIteration)
    /\ LastIteration.move.player.hit_pts <= 0 => NotExpanded(LastIteration)

(***************************************************************************)
(* C17: in hard mode the start of every even (player) turn, turn 0         *)
(* included, takes exactly one hit point from the player and the start of  *)
(* an odd (boss) turn takes none; in normal mode no turn does.  A player   *)
(* brought to 0 hit points this way has lost: the move is dropped, no win  *)
(* is recorded and nothing is pushed, even when the poison of the same     *)
(* turn has brought the boss to 0 hit points or fewer.                     *)
(***************************************************************************)
EffectsApplied == iteration # NoIteration /\ LastIteration.applied # << >>
AfterEffects == LastIteration.applied[1]

HardModeLosesHitPoint ==
  EffectsApplied =>
    /\ AfterEffects.player.hit_pts =
         LastIteration.move.player.hit_pts
           - (IF hard_mode /\ LastIteration.move.turn % 2 = 0 THEN 1 ELSE 0)
    /\ AfterEffects.player.hit_pts <= 0 =>
         /\ LastIteration.outcome = "loss_after_effects"
         /\ min_mana_used = LastIteration.best
         /\ moves = LastIteration.rest

\* the player dies of the hard mode loss on the turn on which the poison
\* kills the boss
DiesBeforePoisonWins ==
  /\ EffectsApplied
  /\ hard_mode
  /\ LastIteration.move.turn % 2 = 0
  /\ LastIteration.move.player.hit_pts = 1
  /\ LastIteration.move.effects.poison > 0
  /\ LastIteration.move.boss.hit_pts > 0
  /\ AfterEffects.boss.hit_pts <= 0
  /\ LastIteration.outcome = "loss_after_effects"

(***************************************************************************)
(* C18: every effect timer of every move of the search is between 0 and    *)
(* the duration of its spell (shield 6, poison 6, recharge 5); a player    *)
(* turn pushes a move with a freshly started effect only if that effect's  *)
(* timer was 0 after the decrement of the turn, and the other timers of a  *)
(* pushed move are those left by the decrement.                            *)
(***************************************************************************)
TimersInRange(effects) ==
  /\ effects.shield \in 0..6
  /\ effects.poison \in 0..6
  /\ effects.recharge \in 0..5

\* the moves the last iteration pushed
Pushed ==
  {moves[i] : i \in 1..Len(moves)}
    \ {LastIteration.rest[i] : i \in 1..Len(LastIteration.rest)}

StartedOrLeft(timer, left, turns) ==
  \/ timer = left
  \/ timer = turns /\ left = 0

ActiveEffectNotRestarted ==
  /\ \A i \in 1..Len(moves) : TimersInRange(moves[i].effects)
  /\ EffectsApplied => TimersInRange(AfterEffects.effects)
  /\ EffectsApplied /\ pc = "search" =>
       \A m \in Pushed :
         /\ StartedOrLeft(m.effects.shield, AfterEffects.effects.shield, 6)
         /\ StartedOrLeft(m.effects.poison, AfterEffects.effects.poison, 6)
         /\ StartedOrLeft(m.effects.recharge, AfterEffects.effects.recharge, 5)

\* a player turn with shield and poison both running and mana for either:
\* neither is started again, the other spells are cast
ActiveEffectsSkipped ==
  /\ EffectsApplied
  /\ pc = "search"
  /\ LastIteration.outcome = "player_turn"
  /\ AfterEffects.effects.shield > 0
  /\ AfterEffects.effects.poison > 0
  /\ AfterEffects.player.mana >= 229
  /\ AfterEffects.boss.hit_pts > 4
  /\ \E m \in Pushed : m.effects.recharge = 5
  /\ \A m \in Pushed : m.effects.shield # 6 /\ m.effects.poison # 6

(***************************************************************************)
(* C19: an effect applies on every turn that starts with its timer above   *)
(* 0 and the timer then drops by one, so a timer of N gives exactly N      *)
(* applications on the N turns after the cast, the last on the turn that   *)
(* brings the timer to 0: poison takes 3 hit points from the boss on each  *)
(* of 6 turns, recharge gives 101 mana on each of 5 turns, shield lasts 6  *)
(* turns.  On a player turn that brings the timer of Shield or Poison to 0 *)
(* the spell is cast again if the player can pay for it.                   *)
(***************************************************************************)
\* the move k turns after move m if nothing but the effects acts
RECURSIVE TurnsLater(_, _)
TurnsLater(m, k) ==
  IF k = 0 THEN m
  ELSE LET a == ApplySpells(m, FALSE, boss_raw_damage)
       IN  TurnsLater(Move(m.turn + 1, m.mana_used, a.player, a.boss, a.effects),
                      k - 1)

AppliesOnce(before, after) ==
  /\ after.effects.shield = IF before.effects.shield > 0
                            THEN before.effects.shield - 1 ELSE 0
  /\ after.effects.poison = IF before.effects.poison > 0
                            THEN before.effects.poison - 1 ELSE 0
  /\ after.effects.recharge = IF before.effects.recharge > 0
                              THEN before.effects.recharge - 1 ELSE 0
  /\ after.boss.hit_pts =
       before.boss.hit_pts - (IF before.effects.poison > 0 THEN 3 ELSE 0)
  /\ after.player.mana =
       before.player.mana + (IF before.effects.recharge > 0 THEN 101 ELSE 0)

RunsItsTurns(m) ==
  /\ m.effects.poison = 6 =>
       \A k \in 0..7 :
         /\ TurnsLater(m, k).boss.hit_pts = m.boss.hit_pts - 3 * Min(k, 6)
         /\ TurnsLater(m, k).effects.poison = 6 - Min(k, 6)
  /\ m.effects.recharge = 5 =>
       \A k \in 0..6 :
         /\ TurnsLater(m, k).player.mana = m.player.mana + 101 * Min(k, 5)
         /\ TurnsLater(m, k).effects.recharge = 5 - Min(k, 5)
  /\ m.effects.shield = 6 =>
       \A k \in 0..7 : TurnsLater(m, k).effects.shield = 6 - Min(k, 6)

\* a move of the next turn that spends `cost` more and starts a timer
CastPushed(cost, effect, turns) ==
  \E i \in 1..Len(moves) :
    /\ moves[i].turn = LastIteration.move.turn + 1
    /\ moves[i].mana_used = LastIteration.move.mana_used + cost
    /\ moves[i].effects[effect] = turns

\* a player turn that does not end with the boss killed by a Magic Missile
\* or a Drain casts every spell whose timer the turn has left at 0, also on
\* the turn that has brought it from 1 to 0
EffectRunsItsTurns ==
  EffectsApplied =>
    /\ AppliesOnce(LastIteration.move, AfterEffects)
    /\ RunsItsTurns(LastIteration.move)
    /\ ( /\ pc = "search"
         /\ LastIteration.outcome = "player_turn"
         /\ AfterEffects.boss.hit_pts > 4 )
       =>
         /\ AfterEffects.effects.shield = 0 /\ AfterEffects.player.mana >= 113
              => CastPushed(113, "shield", 6)
         /\ AfterEffects.effects.poison = 0 /\ AfterEffects.player.mana >= 173
              => CastPushed(173, "poison", 6)
         /\ AfterEffects.effects.recharge = 0 /\ AfterEffects.player.mana >= 229
              => CastPushed(229, "recharge", 5)

\* the sixth application of a poison, on a player turn, and the poison cast
\* again on that turn
PoisonCastAgain ==
  /\ EffectsApplied
  /\ pc = "search"
  /\ LastIteration.outcome = "player_turn"
  /\ LastIteration.move.effects.poison = 1
  /\ AfterEffects.boss.hit_pts = LastIteration.move.boss.hit_pts - 3
  /\ AfterEffects.effects.poison = 0
  /\ \E m \in Pushed :
       m.effects.poison = 6 /\ m.boss.hit_pts = AfterEffects.boss.hit_pts

(***************************************************************************)
(* C20: on every boss turn the player loses the boss's damage of the input *)
(* less 7, but at least 1, if the shield timer is above 0 at the start of  *)
(* the turn, and the full damage of the input if it is 0: the reduced      *)
(* damage a Shield cast left in a move is not used once the shield has run *)
(* out.                                                                    *)
(***************************************************************************)
DamageDealt(shield_timer) ==
  IF shield_timer # 0
  THEN (IF first_boss.damage - 7 < 1 THEN 1 ELSE first_boss.damage - 7)
  ELSE first_boss.damage

BossDealsShieldedDamage ==
  EffectsApplied /\ pc = "search" /\ LastIteration.outcome = "boss_turn" =>
    \E i \in 1..Len(moves) :
      /\ moves[i].turn = LastIteration.move.turn + 1
      /\ moves[i].mana_used = LastIteration.move.mana_used
      /\ moves[i].player.mana = AfterEffects.player.mana
      /\ moves[i].player.hit_pts =
           AfterEffects.player.hit_pts
             - DamageDealt(LastIteration.move.effects.shield)
      /\ moves[i].boss.hit_pts = AfterEffects.boss.hit_pts
      /\ moves[i].effects = AfterEffects.effects

\* a boss turn on a move that still carries the reduced damage of a shield
\* that has run out
AttackAfterShieldExpired ==
  /\ EffectsApplied
  /\ pc = "search"
  /\ LastIteration.outcome = "boss_turn"
  /\ LastIteration.move.effects.shield = 0
  /\ LastIteration.move.boss.damage < first_boss.damage
  /\ \E m \in Pushed :
       m.player.hit_pts = AfterEffects.player.hit_pts - first_boss.damage

(***************************************************************************)
(* C21: every attack of the boss takes at least 1 hit point from the       *)
(* player, whatever the damage of the input (0 included) and whether or    *)
(* not the shield is running: the move a boss turn pushes has at least one *)
(* hit point less than the player had after the effects of the turn.       *)
(***************************************************************************)
BossAttackTakesHitPoint ==
  EffectsApplied /\ pc = "search" /\ LastIteration.outcome = "boss_turn" =>
    \A m \in Pushed : m.player.hit_pts <= AfterEffects.player.hit_pts - 1

(***************************************************************************)
(* C22: a player turn on which both sides are alive after the effects      *)
(* leaves in the frontier one move for every legal spell (its cost is at   *)
(* most the player's mana and, for Shield, Poison and Recharge, its timer  *)
(* is 0) and pushes none for a spell that is not legal; with no spell the  *)
(* player can pay for, nothing is pushed.                                  *)
(***************************************************************************)
LegalCosts(player, effects) ==
  {s.cost : s \in {s \in {magic_missile, drain} : s.cost <= player.mana}}
    \cup {s.cost : s \in {s \in {shield} :
                           s.cost <= player.mana /\ effects.shield = 0}}
    \cup {s.cost : s \in {s \in {poison} :
                           s.cost <= player.mana /\ effects.poison = 0}}
    \cup {s.cost : s \in {s \in {recharge} :
                           s.cost <= player.mana /\ effects.recharge = 0}}

EveryLegalSpellCast ==
  EffectsApplied /\ pc = "search" /\ LastIteration.outcome = "player_turn" =>
    /\ \A cost \in LegalCosts(AfterEffects.player, AfterEffects.effects) :
         \E i \in 1..Len(moves) :
           /\ moves[i].turn = LastIteration.move.turn + 1
           /\ moves[i].mana_used = LastIteration.move.mana_used + cost
    /\ \A m \in Pushed :
         m.mana_used - LastIteration.move.mana_used
           \in LegalCosts(AfterEffects.player, AfterEffects.effects)

(***************************************************************************)
(* C23: a boss turn on which both sides are alive after the effects        *)
(* produces and pushes exactly one move: the player has lost the boss's    *)
(* current damage in hit points, the turn is one higher, and mana_used,    *)
(* the player's mana, the boss's hit points and the timers are those the   *)
(* effects of the turn have left.                                          *)
(***************************************************************************)
BossChild ==
  Move(LastIteration.move.turn + 1,
       LastIteration.move.mana_used,
       Player(AfterEffects.player.hit_pts - AfterEffects.boss.damage,
              AfterEffects.player.mana),
       AfterEffects.boss,
       AfterEffects.effects)

BossTurnPushesOneMove ==
  EffectsApplied /\ pc = "search" /\ LastIteration.outcome = "boss_turn" =>
    Pushed = {BossChild}

(***************************************************************************)
(* C23, as the code has it: a boss turn on which both sides are alive      *)
(* after the effects produces exactly one move, as described above; the    *)
(* move is in the frontier after the turn, and it is pushed unless the     *)
(* frontier already held an identical move (`new_move not in moves`).      *)
(***************************************************************************)
BossTurnLeavesOneMove ==
  EffectsApplied /\ pc = "search" /\ LastIteration.outcome = "boss_turn" =>
    /\ Contains(moves, BossChild)
    /\ Pushed \subseteq {BossChild}
    /\ Len(moves) = Len(LastIteration.rest)
                      + (IF Contains(LastIteration.rest, BossChild)
                         THEN 0 ELSE 1)

\* a boss turn whose move another boss turn has already pushed
BossChildAlreadyInFrontier ==
  /\ EffectsApplied
  /\ pc = "search"
  /\ LastIteration.outcome = "boss_turn"
  /\ Contains(LastIteration.rest, BossChild)
  /\ moves = LastIteration.rest

(***************************************************************************)
(* C24: mana_used never goes down along a path of the search: the move a   *)
(* boss turn pushes has the mana_used of its parent, whatever the effects  *)
(* of the turn did (Recharge adds to the player's mana, never to or from   *)
(* mana_used); a move a player turn pushes has the parent's mana_used plus *)
(* exactly the cost of the spell cast; so the mana_used of a move is the   *)
(* sum of the costs of the spells cast on the player turns before it.      *)
(***************************************************************************)
\* the spell whose cost was paid is the spell that was cast
CostOfCast(parent, child) ==
  LET paid == child.mana_used - LastIteration.move.mana_used
  IN  /\ child.player.mana = parent.player.mana - paid
      /\ \/ paid = 53 /\ child.boss.hit_pts = parent.boss.hit_pts - 4
         \/ /\ paid = 73
            /\ child.boss.hit_pts = parent.boss.hit_pts - 2
            /\ child.player.hit_pts = parent.player.hit_pts + 2
         \/ paid = 113 /\ child.effects.shield = 6 /\ parent.effects.shield = 0
         \/ paid = 173 /\ child.effects.poison = 6 /\ parent.effects.poison = 0
         \/ /\ paid = 229
            /\ child.effects.recharge = 5
            /\ parent.effects.recharge = 0

\* the sums of the costs of n spells
RECURSIVE CostSums(_)
CostSums(n) ==
  IF n = 0 THEN {0}
  ELSE {sum + cost : sum \in CostSums(n - 1), cost \in {53, 73, 113, 173, 229}}

ManaUsedIsSumOfCosts ==
  /\ \A i \in 1..Len(moves) :
       moves[i].mana_used \in CostSums((moves[i].turn + 1) \div 2)
  /\ EffectsApplied /\ pc = "search" =>
       \A m \in Pushed :
         /\ m.mana_used >= LastIteration.move.mana_used
         /\ LastIteration.outcome = "boss_turn" =>
              m.mana_used = LastIteration.move.mana_used
         /\ LastIteration.outcome = "player_turn" => CostOfCast(AfterEffects, m)

\* a boss turn on which Recharge gives the player 101 mana and the move
\* pushed has the mana_used of its parent
RechargeLeavesManaUsed ==
  /\ EffectsApplied
  /\ pc = "search"
  /\ LastIteration.outcome = "boss_turn"
  /\ LastIteration.move.effects.recharge > 0
  /\ \E m \in Pushed :
       /\ m.player.mana = LastIteration.move.player.mana + 101
       /\ m.mana_used = LastIteration.move.mana_used
       /\ m.mana_used > 229

(***************************************************************************)
(* C25: the player's mana is compared with the cost of a spell before the  *)
(* spell is paid for, so the player of every move pushed to the frontier   *)
(* has mana of 0 or more; a player who cannot pay for any spell casts      *)
(* none.                                                                   *)
(***************************************************************************)
ManaNeverNegative ==
  /\ \A i \in 1..Len(moves) : moves[i].player.mana >= 0
  /\ EffectsApplied => AfterEffects.player.mana >= 0
  /\ EffectsApplied /\ pc = "search" /\ LastIteration.outcome = "player_turn" =>
       \A m \in Pushed :
         m.mana_used - LastIteration.move.mana_used <= AfterEffects.player.mana

\* a player turn with mana for some spells but not for Recharge, which is
\* not running: the cheaper spells are cast, Recharge is not
CannotPayForRecharge ==
  /\ EffectsApplied
  /\ pc = "search"
  /\ LastIteration.outcome = "player_turn"
  /\ AfterEffects.player.mana < 229
  /\ AfterEffects.effects.recharge = 0
  /\ AfterEffects.boss.hit_pts > 4
  /\ \E m \in Pushed : m.player.mana = AfterEffects.player.mana - 53
  /\ \A m \in Pushed : m.effects.recharge # 5

(***************************************************************************)
(* C26: for every boss with finite hit points and a damage of 1 or more    *)
(* _get_min_mana terminates: the frontier runs empty and the search        *)
(* returns, also when no play wins, so that no move is pruned by the best  *)
(* win.                                                                    *)
(***************************************************************************)
SearchTerminates ==
  <>(first_boss.damage >= 1 => pc = "returned" /\ moves = << >>)

\* a search without a win has run to its end: nothing was pruned, the
\* frontier is empty
SearchWithoutWinReturned ==
  /\ pc = "returned"
  /\ first_boss.damage >= 1
  /\ wins = << >>
  /\ min_mana_used = MaxSize
  /\ moves = << >>
  /\ iteration # NoIteration
  /\ LastIteration.move.turn >= 3

(***************************************************************************)
(* C30: when no play beats the boss in a mode, _get_min_mana returns       *)
(* sys.maxsize for that mode, without a win recorded, and the solver       *)
(* formats that number as the answer of the mode.                          *)
(***************************************************************************)
\* str(sys.maxsize), for the sys.maxsize of the model
SentinelText == << "2", "1", "4", "7", "4", "8", "3", "6", "4", "7" >>

Unbeatable(boss, hard) == ~Winnable(boss, hard, MaxSize)

UnbeatableGivesMaxSize ==
  /\ pc = "returned" /\ Unbeatable(first_boss, hard_mode) =>
       min_mana_used = MaxSize /\ wins = << >>
  /\ pc = "got_solution" =>
       /\ Unbeatable(first_boss, FALSE) => answers[1] = MaxSize
       /\ Unbeatable(first_boss, TRUE) => answers[2] = MaxSize
       /\ output =
            SolvedOutput(IF Unbeatable(first_boss, FALSE)
                         THEN SentinelText ELSE Str(answers[1]),
                         IF Unbeatable(first_boss, TRUE)
                         THEN SentinelText ELSE Str(answers[2]))

\* the answer of a boss that wins the first attack in either mode
UnbeatableBossFormatted ==
  /\ pc = "got_solution"
  /\ Unbeatable(first_boss, FALSE)
  /\ Unbeatable(first_boss, TRUE)
  /\ answers = << MaxSize, MaxSize >>
  /\ output = SolvedOutput(SentinelText, SentinelText)

(***************************************************************************)
(* C27: run_program starts at instruction 0 and stops exactly when the     *)
(* instruction pointer is outside 0 .. len(program) - 1, below or above;   *)
(* hlf, tpl and inc move the pointer on by 1, jmp adds its offset, jie     *)
(* adds its offset if the register is even and jio if the register is 1,   *)
(* and both move on by 1 otherwise; no register is ever negative.          *)
(***************************************************************************)
PointerStep(computer, prog) ==
  LET instr == CurrentInstruction(computer, prog)
  IN  CASE instr.type \in {"hlf", "tpl", "inc"} -> 1
        [] instr.type = "jmp" -> instr.value
        [] instr.type = "jie" ->
             IF computer.registers[instr.register] % 2 = 0
             THEN instr.value ELSE 1
        [] instr.type = "jio" ->
             IF computer.registers[instr.register] = 1 THEN instr.value ELSE 1

\* one instruction has taken the computer from `before` to `after`
OneInstruction(before, after, prog) ==
  /\ before.instruction_pointer \in 0..(Len(prog) - 1)
  /\ after.instruction_pointer =
       before.instruction_pointer + PointerStep(before, prog)

Halted(computer, prog) ==
  computer.instruction_pointer < 0 \/ computer.instruction_pointer >= Len(prog)

PointerFollowsInstruction ==
  [][ /\ pc = "day23_solve" => computer_pt1'.instruction_pointer = 0
      /\ pc = "day23_run_pt1" /\ pc' = "day23_run_pt1" =>
           OneInstruction(computer_pt1, computer_pt1', program)
      /\ pc = "day23_run_pt1" /\ pc' = "day23_run_pt2" =>
           /\ Halted(computer_pt1, program)
           /\ computer_pt2'.instruction_pointer = 0
      /\ pc = "day23_run_pt2" /\ pc' = "day23_run_pt2" =>
           OneInstruction(computer_pt2, computer_pt2', program)
      /\ pc = "day23_run_pt2" /\ pc' = "day23_done" =>
           Halted(computer_pt2, program)
      /\ pc' # "day23_solve" =>
           \A r \in {"a", "b"} :
             computer_pt1'.registers[r] >= 0 /\ computer_pt2'.registers[r] >= 0
    ]_vars

\* `tpl a; jio a, +2; inc b` from a = 1: the register is 3, odd but not 1,
\* so the jump is not taken and b is incremented before the pointer leaves
\* the program
JioOnThreeFallsThrough ==
  /\ pc = "day23_done"
  /\ Len(program) = 3
  /\ program[1].type = "tpl" /\ program[1].register = "a"
  /\ program[2].type = "jio" /\ program[2].register = "a"
  /\ program[2].value = 2
  /\ program[3].type = "inc" /\ program[3].register = "b"
  /\ computer_pt2.registers.a = 3
  /\ computer_pt2.registers.b = 1
  /\ computer_pt2.instruction_pointer = 3

(***************************************************************************)
(* C29: every line of the input changes the brightness of each light of    *)
(* the ComplexLightGrid it covers, and of no other: 'turn on' adds 1,      *)
(* 'turn off' takes 1 but not below 0, 'toggle' adds 2.  The brightness is *)
(* never negative and has no upper limit: no line fails for the brightness *)
(* it finds.                                                               *)
(***************************************************************************)
BrightnessAfter(line, brightness) ==
  IF line[1].val = "toggle " THEN brightness + 2
  ELSE IF line[1].val = "turn on " THEN brightness + 1
  ELSE IF brightness = 0 THEN 0 ELSE brightness - 1

BrightnessFollowsLines ==
  [][ pc = "day6_for" /\ pc' # "day6_done" =>
        /\ pc' = "day6_for"
        /\ \A row \in 0..(GridHeight - 1) : \A column \in 0..(GridWidth - 1) :
             /\ complex_grid'[row][column] >= 0
             /\ complex_grid'[row][column] =
                  IF Covers(Point(instruction'[1][2].val, instruction'[1][4].val),
                            Point(instruction'[1][6].val, instruction'[1][8].val),
                            Point(column, row))
                  THEN BrightnessAfter(instruction'[1], complex_grid[row][column])
                  ELSE complex_grid[row][column]
    ]_vars

(***************************************************************************)
(* C28: a gate of Day 7 provides no signal until all of its inputs have a  *)
(* signal.  An AND or OR gate that _propagate_signals evaluates while only *)
(* one of its two inputs has a signal does not fail and leaves its output  *)
(* wire without a signal, whichever input is the missing one; and when the *)
(* propagation is over, every AND or OR gate whose two inputs have a       *)
(* signal has given its output wire a signal.                              *)
(***************************************************************************)
TwoInputGates == {"AND_GATE", "OR_GATE"}

OneInputMissing(evaluation) ==
  /\ evaluation.circuit_type \in TwoInputGates
  /\ (evaluation.input_a = NoSignal) # (evaluation.input_b = NoSignal)

GateWaitsForBothInputs ==
  /\ evaluated # << >> /\ OneInputMissing(evaluated[1]) =>
       /\ ~evaluated[1].new_signal.raised
       /\ pc # "TypeError"
       /\ wire_tracker[evaluated[1].wire_id].signal = NoSignal
  /\ pc = "day7_propagated" =>
       \A w \in DOMAIN wire_tracker :
         /\ wire_tracker[w].source_type \in TwoInputGates
         /\ SignalOf(wire_tracker, wire_tracker[w].input_a) # NoSignal
         /\ SignalOf(wire_tracker, wire_tracker[w].input_b) # NoSignal
         => wire_tracker[w].signal # NoSignal

====
